---- MODULE Spec2Model ----
(***************************************************************************)
(* Model of the premium / risk-pricing engine of the insurance system and  *)
(* of the Policy record that owns a premium.                               *)
(*                                                                         *)
(* Amounts (Python floats in the source) are exact rationals [n, d] in     *)
(* lowest terms; a premium returned by round(x, 2) is an integer number of *)
(* cents.  Binary floating-point representation error is not modelled.     *)
(* A Python call yields a record [exc, val]: exc = "none" and the returned *)
(* value, or the name of the exception the call raises.                    *)
(***************************************************************************)
EXTENDS Integers, Sequences, FiniteSets, TLC

VARIABLES call, result, policy, ret,
          tables, pending, payment, customer, storage, underwriter

vars == <<call, result, policy, ret,
          tables, pending, payment, customer, storage, underwriter>>

\* the class-level tables, the callers' calls in progress, a Payment, a
\* Customer, the JSON data file and the underwriter's claims and payments
componentVars == <<tables, pending, payment, customer, storage, underwriter>>

(***************************************************************************)
(* Bounds of the explored inputs.                                          *)
(***************************************************************************)
MaxTerm == 4
MaxCoverageSteps == 3

(***************************************************************************)
(* Exact rational arithmetic standing for Python float arithmetic.         *)
(***************************************************************************)
Abs(x) == IF x < 0 THEN -x ELSE x

RECURSIVE GCD(_, _)
GCD(a, b) == IF b = 0 THEN a ELSE GCD(b, a % b)

Rat(n, d) ==
    LET g == GCD(Abs(n), d)
    IN  [n |-> n \div g, d |-> d \div g]

RInt(i) == [n |-> i, d |-> 1]

RMul(a, b) ==
    LET g1 == GCD(Abs(a.n), b.d)
        g2 == GCD(Abs(b.n), a.d)
    IN  IF a.n = 0 \/ b.n = 0 THEN RInt(0)
        ELSE [n |-> (a.n \div g1) * (b.n \div g2),
              d |-> (a.d \div g2) * (b.d \div g1)]

RAdd(a, b) == Rat(a.n * b.d + b.n * a.d, a.d * b.d)

RDivInt(a, k) == RMul(a, Rat(1, k))

RGreater(a, b) == a.n * b.d > b.n * a.d

RLeqZero(a) == a.n <= 0

\* round(x, 2) of Python 3 (round-half-to-even), as an integer number of cents
Round2(x) ==
    LET y == RMul(x, RInt(100))
        q == y.n \div y.d
        r == y.n - q * y.d
    IN  IF 2 * r < y.d THEN q
        ELSE IF 2 * r > y.d THEN q + 1
        ELSE IF q % 2 = 0 THEN q ELSE q + 1

(***************************************************************************)
(* Python values held in a risk-factor mapping: a number, a string (a      *)
(* sequence of characters) or None.                                        *)
(***************************************************************************)
NumV(r) == [t |-> "num", num |-> r, str |-> <<>>]
StrV(s) == [t |-> "str", num |-> RInt(0), str |-> s]
NoneV == [t |-> "none", num |-> RInt(0), str |-> <<>>]

Ok(v) == [exc |-> "none", val |-> v]
Raise(e) == [exc |-> e, val |-> RInt(0)]

\* dict.get(key, default)
Get(d, key, default) == IF key \in DOMAIN d THEN d[key] ELSE default

LowerToUpper ==
    [c \in {"a", "b", "c", "d", "e", "f", "g", "h", "i", "j", "k", "l", "m",
            "n", "o", "p", "q", "r", "s", "t", "u", "v", "w", "x", "y", "z"} |->
        CASE c = "a" -> "A" [] c = "b" -> "B" [] c = "c" -> "C" [] c = "d" -> "D"
          [] c = "e" -> "E" [] c = "f" -> "F" [] c = "g" -> "G" [] c = "h" -> "H"
          [] c = "i" -> "I" [] c = "j" -> "J" [] c = "k" -> "K" [] c = "l" -> "L"
          [] c = "m" -> "M" [] c = "n" -> "N" [] c = "o" -> "O" [] c = "p" -> "P"
          [] c = "q" -> "Q" [] c = "r" -> "R" [] c = "s" -> "S" [] c = "t" -> "T"
          [] c = "u" -> "U" [] c = "v" -> "V" [] c = "w" -> "W" [] c = "x" -> "X"
          [] c = "y" -> "Y" [] c = "z" -> "Z"]

\* str.upper()
Upper(s) ==
    [i \in 1..Len(s) |-> IF s[i] \in DOMAIN LowerToUpper THEN LowerToUpper[s[i]] ELSE s[i]]

\* the value looked up as given, .upper() forgotten
UpperOf_AsGiven(v) == IF v.t = "str" THEN Ok(v.str) ELSE Raise("AttributeError")

\* value.upper(): only a str has the method
UpperOf(v) == IF v.t = "str" THEN Ok(Upper(v.str)) ELSE Raise("AttributeError")

DigitValue ==
    [c \in {"0", "1", "2", "3", "4", "5", "6", "7", "8", "9"} |->
        CASE c = "0" -> 0 [] c = "1" -> 1 [] c = "2" -> 2 [] c = "3" -> 3
          [] c = "4" -> 4 [] c = "5" -> 5 [] c = "6" -> 6 [] c = "7" -> 7
          [] c = "8" -> 8 [] c = "9" -> 9]

RECURSIVE ParseDigits(_)
ParseDigits(s) ==
    IF s = <<>> THEN 0
    ELSE 10 * ParseDigits(SubSeq(s, 1, Len(s) - 1)) + DigitValue[s[Len(s)]]

\* float(value): a number converts, a string of decimal digits parses, any
\* other string of the explored inputs is not a number, None has no float
Float(v) ==
    IF v.t = "num" THEN Ok(v.num)
    ELSE IF v.t = "str"
         THEN IF v.str # <<>> /\ \A i \in 1..Len(v.str) : v.str[i] \in DOMAIN DigitValue
              THEN Ok(RInt(ParseDigits(v.str)))
              ELSE Raise("ValueError")
         ELSE Raise("TypeError")

(***************************************************************************)
(* policy_enums.PolicyType and the tables of calculations.PolicyCalculator *)
(***************************************************************************)
PolicyType == {"LIFE", "CAR", "HEALTH", "PROPERTY"}

BASE_RATES ==
    [T \in PolicyType |->
        CASE T = "LIFE" -> Rat(5, 1000)
          [] T = "CAR" -> Rat(4, 100)
          [] T = "HEALTH" -> Rat(6, 100)
          [] T = "PROPERTY" -> Rat(2, 100)]

S_CLEAN == <<"C", "L", "E", "A", "N">>
S_MINOR_VIOLATIONS ==
    <<"M", "I", "N", "O", "R", "_", "V", "I", "O", "L", "A", "T", "I", "O", "N", "S">>
S_MAJOR_VIOLATIONS ==
    <<"M", "A", "J", "O", "R", "_", "V", "I", "O", "L", "A", "T", "I", "O", "N", "S">>
S_ACCIDENTS == <<"A", "C", "C", "I", "D", "E", "N", "T", "S">>
S_GARAGE == <<"G", "A", "R", "A", "G", "E">>
S_DRIVEWAY == <<"D", "R", "I", "V", "E", "W", "A", "Y">>
S_STREET == <<"S", "T", "R", "E", "E", "T">>
S_PUBLIC_PARKING == <<"P", "U", "B", "L", "I", "C", "_", "P", "A", "R", "K", "I", "N", "G">>
S_LOW == <<"L", "O", "W">>
S_MEDIUM == <<"M", "E", "D", "I", "U", "M">>
S_HIGH == <<"H", "I", "G", "H">>

DRIVING_HISTORY_MULTIPLIERS ==
    [s \in {S_CLEAN, S_MINOR_VIOLATIONS, S_MAJOR_VIOLATIONS, S_ACCIDENTS} |->
        CASE s = S_CLEAN -> Rat(10, 10)
          [] s = S_MINOR_VIOLATIONS -> Rat(12, 10)
          [] s = S_MAJOR_VIOLATIONS -> Rat(15, 10)
          [] s = S_ACCIDENTS -> Rat(18, 10)]

PARKING_LOCATION_MULTIPLIERS ==
    [s \in {S_GARAGE, S_DRIVEWAY, S_STREET, S_PUBLIC_PARKING} |->
        CASE s = S_GARAGE -> Rat(10, 10)
          [] s = S_DRIVEWAY -> Rat(11, 10)
          [] s = S_STREET -> Rat(13, 10)
          [] s = S_PUBLIC_PARKING -> Rat(14, 10)]

risk_values ==
    [s \in {S_LOW, S_MEDIUM, S_HIGH} |->
        CASE s = S_LOW -> Rat(10, 10)
          [] s = S_MEDIUM -> Rat(13, 10)
          [] s = S_HIGH -> Rat(16, 10)]

(***************************************************************************)
(* calculations.PolicyCalculator: the canonical premium calculator.        *)
(***************************************************************************)
One == RInt(1)

\* the two brackets tested in the wrong order
VehicleAgeFactor_BracketsSwapped(vehicle_age) ==
    IF RGreater(vehicle_age, RInt(5)) THEN Rat(12, 10)
    ELSE IF RGreater(vehicle_age, RInt(10)) THEN Rat(14, 10)
    ELSE One

VehicleAgeFactor(vehicle_age) ==
    IF RGreater(vehicle_age, RInt(10)) THEN Rat(14, 10)
    ELSE IF RGreater(vehicle_age, RInt(5)) THEN Rat(12, 10)
    ELSE One

MileageFactor(annual_mileage) ==
    IF RGreater(annual_mileage, RInt(20000)) THEN Rat(13, 10)
    ELSE IF RGreater(annual_mileage, RInt(15000)) THEN Rat(12, 10)
    ELSE One

DrivingHistoryFactor(driving_history) ==
    Get(DRIVING_HISTORY_MULTIPLIERS, driving_history, One)

ParkingLocationFactor(parking_location) ==
    Get(PARKING_LOCATION_MULTIPLIERS, parking_location, One)

\* the brackets closed at their lower ends (>= for >)
LifeAgeFactor_Inclusive(age) ==
    IF ~RGreater(RInt(60), age) THEN Rat(15, 10)
    ELSE IF ~RGreater(RInt(40), age) THEN Rat(12, 10)
    ELSE One

LifeAgeFactor(age) ==
    IF RGreater(age, RInt(60)) THEN Rat(15, 10)
    ELSE IF RGreater(age, RInt(40)) THEN Rat(12, 10)
    ELSE One

\* (1 + 0.1) * pre_conditions for 1 + (0.1 * pre_conditions)
HealthFactor_Precedence(pre_conditions) ==
    RMul(RAdd(One, Rat(1, 10)), pre_conditions)

HealthFactor(pre_conditions) ==
    RAdd(One, RMul(Rat(1, 10), pre_conditions))

LocationRiskFactor(location_risk) ==
    Get(risk_values, location_risk, One)

CarRiskMultiplier(risk_factors) ==
    LET vehicle_age == Float(Get(risk_factors, "vehicle_age", NumV(RInt(0))))
        annual_mileage == Float(Get(risk_factors, "annual_mileage", NumV(RInt(12000))))
        driving_history == UpperOf(Get(risk_factors, "driving_history", StrV(S_CLEAN)))
        parking_location == UpperOf(Get(risk_factors, "parking_location", StrV(S_GARAGE)))
    IN  IF vehicle_age.exc # "none" THEN Raise(vehicle_age.exc)
        ELSE IF annual_mileage.exc # "none" THEN Raise(annual_mileage.exc)
        ELSE IF driving_history.exc # "none" THEN Raise(driving_history.exc)
        ELSE IF parking_location.exc # "none" THEN Raise(parking_location.exc)
        ELSE Ok(RMul(RMul(RMul(RMul(One, VehicleAgeFactor(vehicle_age.val)),
                                MileageFactor(annual_mileage.val)),
                           DrivingHistoryFactor(driving_history.val)),
                      ParkingLocationFactor(parking_location.val)))

\* risk_factors['age'] for risk_factors.get('age', 30)
LifeRiskMultiplier_Subscript(risk_factors) ==
    IF ~("age" \in DOMAIN risk_factors) THEN Raise("KeyError")
    ELSE LET age == Float(risk_factors["age"])
         IN  IF age.exc # "none" THEN Raise(age.exc)
             ELSE Ok(RMul(One, LifeAgeFactor(age.val)))

LifeRiskMultiplier(risk_factors) ==
    LET age == Float(Get(risk_factors, "age", NumV(RInt(30))))
    IN  IF age.exc # "none" THEN Raise(age.exc)
        ELSE Ok(RMul(One, LifeAgeFactor(age.val)))

HealthRiskMultiplier(risk_factors) ==
    LET pre_conditions == Float(Get(risk_factors, "pre_conditions", NumV(RInt(0))))
    IN  IF pre_conditions.exc # "none" THEN Raise(pre_conditions.exc)
        ELSE Ok(RMul(One, HealthFactor(pre_conditions.val)))

PropertyRiskMultiplier(risk_factors) ==
    LET location_risk == UpperOf(Get(risk_factors, "location_risk", StrV(S_LOW)))
    IN  IF location_risk.exc # "none" THEN Raise(location_risk.exc)
        ELSE Ok(RMul(One, LocationRiskFactor(location_risk.val)))

\* the last branch taken by every remaining type (else for elif PROPERTY)
calculate_risk_multiplier_ElseProperty(policy_type, risk_factors) ==
    IF policy_type = "CAR" THEN CarRiskMultiplier(risk_factors)
    ELSE IF policy_type = "LIFE" THEN LifeRiskMultiplier(risk_factors)
    ELSE IF policy_type = "HEALTH" THEN HealthRiskMultiplier(risk_factors)
    ELSE PropertyRiskMultiplier(risk_factors)

calculate_risk_multiplier(policy_type, risk_factors) ==
    IF policy_type = "CAR" THEN CarRiskMultiplier(risk_factors)
    ELSE IF policy_type = "LIFE" THEN LifeRiskMultiplier(risk_factors)
    ELSE IF policy_type = "HEALTH" THEN HealthRiskMultiplier(risk_factors)
    ELSE IF policy_type = "PROPERTY" THEN PropertyRiskMultiplier(risk_factors)
    ELSE Ok(One)

BaseRate(policy_type) == Get(BASE_RATES, policy_type, Rat(3, 100))

\* the term charged in whole years, rounded up
TermYears_WholeYears(term_months) == RInt((term_months + 11) \div 12)

TermYears(term_months) == Rat(term_months, 12)

\* the annual premium, the term adjustment left out
TermAdjustedPremium_Annual(policy_type, coverage_amount, term_months) ==
    RMul(coverage_amount, BaseRate(policy_type))

\* base premium (annualized) adjusted for the policy term, before risk factors
TermAdjustedPremium(policy_type, coverage_amount, term_months) ==
    RMul(RMul(coverage_amount, BaseRate(policy_type)), TermYears(term_months))

\* the multiplier applied to the term-adjusted premium: none for an empty mapping
AppliedMultiplier(policy_type, risk_factors) ==
    IF DOMAIN risk_factors # {}
    THEN calculate_risk_multiplier(policy_type, risk_factors)
    ELSE Ok(One)

PremiumOk(cents) == [exc |-> "none", val |-> cents]
PremiumRaise(e) == [exc |-> e, val |-> 0]

\* the precondition tested on the coverage alone
calculate_premium_CoverageGuardOnly(policy_type, coverage_amount, term_months, risk_factors) ==
    IF RLeqZero(coverage_amount) THEN PremiumOk(0)
    ELSE LET risk_multiplier == AppliedMultiplier(policy_type, risk_factors)
         IN  IF risk_multiplier.exc # "none" THEN PremiumRaise(risk_multiplier.exc)
             ELSE PremiumOk(Round2(RMul(
                      TermAdjustedPremium(policy_type, coverage_amount, term_months),
                      risk_multiplier.val)))

calculate_premium(policy_type, coverage_amount, term_months, risk_factors) ==
    IF RLeqZero(coverage_amount) \/ term_months <= 0 THEN PremiumOk(0)
    ELSE LET risk_multiplier == AppliedMultiplier(policy_type, risk_factors)
         IN  IF risk_multiplier.exc # "none" THEN PremiumRaise(risk_multiplier.exc)
             ELSE PremiumOk(Round2(RMul(
                      TermAdjustedPremium(policy_type, coverage_amount, term_months),
                      risk_multiplier.val)))

(***************************************************************************)
(* policy_calculator.PolicyCalculator: the second premium calculator, the  *)
(* one Policy.calculate_premium calls.                                     *)
(***************************************************************************)
\* multiplier += value, multiplier being 1.0: only a number can be added
AddTo(multiplier, v) ==
    IF v.t = "num" THEN Ok(RAdd(multiplier, v.num)) ELSE Raise("TypeError")

\* 0.01 * value: a number is scaled; a str or None cannot be multiplied by a float
Hundredth(v) ==
    IF v.t = "num" THEN Ok(NumV(RMul(Rat(1, 100), v.num))) ELSE Raise("TypeError")

pc_calculate_risk_multiplier(policy_type, risk_factors) ==
    IF policy_type = "CAR"
    THEN AddTo(One, Get(risk_factors, "base_score", NumV(One)))
    ELSE IF policy_type = "LIFE"
    THEN LET scaled == Hundredth(Get(risk_factors, "age", NumV(RInt(30))))
         IN  IF scaled.exc # "none" THEN Raise(scaled.exc) ELSE AddTo(One, scaled.val)
    ELSE IF policy_type = "HEALTH"
    THEN AddTo(One, Get(risk_factors, "health_score", NumV(Rat(5, 10))))
    ELSE IF policy_type = "PROPERTY"
    THEN AddTo(One, Get(risk_factors, "location_risk", NumV(Rat(5, 10))))
    ELSE Ok(One)

pc_calculate_premium(policy_type, coverage_amount, term_months, risk_factors) ==
    IF RLeqZero(coverage_amount) \/ term_months <= 0 THEN PremiumRaise("ValueError")
    ELSE LET multiplier == IF DOMAIN risk_factors # {}
                           THEN pc_calculate_risk_multiplier(policy_type, risk_factors)
                           ELSE Ok(One)
         IN  IF multiplier.exc # "none" THEN PremiumRaise(multiplier.exc)
             ELSE PremiumOk(Round2(RMul(
                      TermAdjustedPremium(policy_type, coverage_amount, term_months),
                      multiplier.val)))

(***************************************************************************)
(* Inputs of the calculator calls.                                         *)
(***************************************************************************)
S_accidents == <<"a", "c", "c", "i", "d", "e", "n", "t", "s">>
S_Minor_Violations ==
    <<"M", "i", "n", "o", "r", "_", "V", "i", "o", "l", "a", "t", "i", "o", "n", "s">>
S_UNKNOWN == <<"U", "N", "K", "N", "O", "W", "N">>
S_street == <<"s", "t", "r", "e", "e", "t">>
S_Driveway == <<"D", "r", "i", "v", "e", "w", "a", "y">>
S_VALET == <<"V", "A", "L", "E", "T">>
S_medium == <<"m", "e", "d", "i", "u", "m">>
S_High == <<"H", "i", "g", "h">>
S_old == <<"o", "l", "d">>
S_65 == <<"6", "5">>

PolicyTypeInputs == PolicyType \cup {"BOAT"}

CoverageInputs ==
    {RInt(1100 * k) : k \in -1..MaxCoverageSteps} \cup {RInt(100000)}

TermInputs == (-1..MaxTerm) \cup {12}

Restrict(f, S) == [k \in S |-> f[k]]

\* every mapping that assigns values of full's ranges to a subset of its keys
SubMappings(full) ==
    {Restrict(f, S) : f \in full, S \in SUBSET {"vehicle_age", "annual_mileage",
                                               "driving_history", "parking_location"}}

CarMappings ==
    SubMappings(
        [vehicle_age : {NumV(RInt(6)), NumV(RInt(12)), StrV(S_old)},
         annual_mileage : {NumV(RInt(16000)), NumV(RInt(25000))},
         driving_history : {StrV(S_CLEAN), StrV(S_MINOR_VIOLATIONS), StrV(S_MAJOR_VIOLATIONS),
                            StrV(S_ACCIDENTS), StrV(S_accidents), StrV(S_Minor_Violations),
                            StrV(S_UNKNOWN), NumV(RInt(5))},
         parking_location : {StrV(S_GARAGE), StrV(S_DRIVEWAY), StrV(S_STREET),
                             StrV(S_PUBLIC_PARKING), StrV(S_street), StrV(S_Driveway),
                             StrV(S_VALET), NoneV}])

\* the fewer CAR mappings a premium call is explored with
CarPremiumMappings ==
    SubMappings(
        [vehicle_age : {NumV(RInt(12)), StrV(S_old)},
         annual_mileage : {NumV(RInt(25000))},
         driving_history : {StrV(S_ACCIDENTS), StrV(S_accidents), NumV(RInt(5))},
         parking_location : {StrV(S_STREET), StrV(S_VALET), NoneV}])

LifeMappings ==
    {[age |-> v] : v \in {NumV(RInt(30)), NumV(RInt(40)), NumV(RInt(41)), NumV(RInt(60)),
                          NumV(RInt(61)), NumV(RInt(65)), StrV(S_65), StrV(S_old), NoneV}}

HealthMappings ==
    {[pre_conditions |-> v] : v \in {NumV(RInt(0)), NumV(RInt(1)), NumV(RInt(2)),
                                     NumV(RInt(3)), NumV(RInt(-20)), NoneV}}

PropertyMappings ==
    {[location_risk |-> v] : v \in {StrV(S_LOW), StrV(S_MEDIUM), StrV(S_HIGH), StrV(S_medium),
                                    StrV(S_High), StrV(S_UNKNOWN), NumV(Rat(5, 10))}}

\* mappings of the risk-score bridge: keys the canonical multiplier never reads
BridgeMappings ==
    {[base_risk |-> NumV(Rat(5, 10))],
     [base_risk |-> NumV(Rat(5, 10)), age |-> NumV(RInt(0))],
     [base_score |-> NumV(Rat(5, 10))],
     [base_score |-> StrV(S_HIGH)],
     [health_score |-> NumV(Rat(2, 10))]}

EmptyMapping == <<>>

OtherMappings ==
    LifeMappings \cup HealthMappings \cup PropertyMappings \cup BridgeMappings
        \cup {EmptyMapping}

MultiplierMappings == CarMappings \cup OtherMappings

PremiumMappings == CarPremiumMappings \cup OtherMappings

(***************************************************************************)
(* Calls of the calculators, one at a time: call holds the arguments of    *)
(* the call being made, result what it returned or raised.                 *)
(***************************************************************************)
NoCall ==
    [fn |-> "none", policy_type |-> "LIFE", coverage_amount |-> RInt(0),
     term_months |-> 0, risk_factors |-> EmptyMapping]

NoPolicy == [policy_type |-> "LIFE"]

\* the class attributes of the two PolicyCalculator classes that the calls
\* read, as loaded
ClassTables ==
    [BASE_RATES |-> BASE_RATES,
     pc_BASE_RATES |-> BASE_RATES,
     DRIVING_HISTORY_MULTIPLIERS |-> DRIVING_HISTORY_MULTIPLIERS,
     PARKING_LOCATION_MULTIPLIERS |-> PARKING_LOCATION_MULTIPLIERS]

\* the components a specification does not exercise are left out of its
\* state: no table is tracked, no caller, Payment, Customer, data file or
\* underwriter session exists
IdleComponents ==
    /\ tables = <<>>
    /\ pending = <<>>
    /\ payment = <<>>
    /\ customer = <<>>
    /\ storage = <<>>
    /\ underwriter = <<>>

InitCalc ==
    /\ call = NoCall
    /\ result = PremiumOk(0)
    /\ policy = NoPolicy
    /\ ret = PremiumOk(0)
    /\ IdleComponents

CallCalculatePremium ==
    /\ call.fn = "none"
    /\ \E T \in PolicyTypeInputs, C \in CoverageInputs, M \in TermInputs, rf \in PremiumMappings :
            /\ call' = [fn |-> "calculate_premium", policy_type |-> T, coverage_amount |-> C,
                        term_months |-> M, risk_factors |-> rf]
            /\ result' = calculate_premium(T, C, M, rf)
            /\ UNCHANGED <<policy, ret, componentVars>>

CallPcCalculatePremium ==
    /\ call.fn = "none"
    /\ \E T \in PolicyTypeInputs, C \in CoverageInputs, M \in TermInputs, rf \in PremiumMappings :
            /\ call' = [fn |-> "pc_calculate_premium", policy_type |-> T, coverage_amount |-> C,
                        term_months |-> M, risk_factors |-> rf]
            /\ result' = pc_calculate_premium(T, C, M, rf)
            /\ UNCHANGED <<policy, ret, componentVars>>

CallCalculateRiskMultiplier ==
    /\ call.fn = "none"
    /\ \E T \in PolicyTypeInputs, rf \in MultiplierMappings :
            /\ call' = [fn |-> "calculate_risk_multiplier", policy_type |-> T,
                        coverage_amount |-> RInt(0), term_months |-> 0, risk_factors |-> rf]
            /\ result' = calculate_risk_multiplier(T, rf)
            /\ UNCHANGED <<policy, ret, componentVars>>

\* the call returns to its caller, which may then make the next call
Return ==
    /\ call.fn # "none"
    /\ call' = NoCall
    /\ result' = PremiumOk(0)
    /\ UNCHANGED <<policy, ret, componentVars>>

NextCalc ==
    \/ Return
    \/ CallCalculatePremium
    \/ CallPcCalculatePremium
    \/ CallCalculateRiskMultiplier

SpecCalc == InitCalc /\ [][NextCalc]_vars

(***************************************************************************)
(* policy.Policy: the record that owns a premium.  A date is None or a     *)
(* [year, month, day] record; the stored premium is a number of cents.     *)
(***************************************************************************)
NoDate == [year |-> 0, month |-> 0, day |-> 0]

Date(y, m, d) == [year |-> y, month |-> m, day |-> d]

\* datetime ordering: a > b
DateAfter(a, b) ==
    \/ a.year > b.year
    \/ a.year = b.year /\ a.month > b.month
    \/ a.year = b.year /\ a.month = b.month /\ a.day > b.day

Max(a, b) == IF a >= b THEN a ELSE b

pc_calculate_policy_term(start_date, end_date) ==
    IF start_date = NoDate \/ end_date = NoDate \/ ~DateAfter(end_date, start_date) THEN 0
    ELSE LET months == (end_date.year - start_date.year) * 12
                           + (end_date.month - start_date.month)
             adjusted == IF end_date.day < start_date.day THEN months - 1 ELSE months
         IN  Max(adjusted, 1)

DateInputs ==
    {NoDate, Date(2024, 1, 1), Date(2024, 1, 31), Date(2024, 2, 1), Date(2025, 1, 10)}

PremiumInputs == {-100, 0, 500000}

PolicyRiskFactorInputs ==
    {EmptyMapping, [age |-> NumV(RInt(65))], [base_score |-> StrV(S_HIGH)]}

\* Policy.__init__
NewPolicy(policy_type) ==
    [policy_type |-> policy_type, coverage_amount |-> RInt(0), premium |-> 0,
     status |-> "PENDING", start_date |-> NoDate, end_date |-> NoDate]

Returned(op, ok) == [op |-> op, exc |-> "none", val |-> IF ok THEN 1 ELSE 0]

InitPolicy ==
    /\ call = NoCall
    /\ result = PremiumOk(0)
    /\ \E T \in PolicyType : policy = NewPolicy(T)
    /\ ret = [op |-> "__init__", exc |-> "none", val |-> 0]
    /\ IdleComponents

set_coverage_amount ==
    \E amount \in CoverageInputs :
        /\ policy' = IF ~RLeqZero(amount)
                     THEN [policy EXCEPT !.coverage_amount = amount]
                     ELSE policy
        /\ ret' = Returned("set_coverage_amount", ~RLeqZero(amount))
        /\ UNCHANGED <<call, result, componentVars>>

set_premium ==
    \E premium \in PremiumInputs :
        /\ policy' = IF premium > 0 THEN [policy EXCEPT !.premium = premium] ELSE policy
        /\ ret' = Returned("set_premium", premium > 0)
        /\ UNCHANGED <<call, result, componentVars>>

set_dates ==
    \E start_date \in DateInputs, end_date \in DateInputs :
        LET valid == start_date # NoDate /\ end_date # NoDate
                         /\ DateAfter(end_date, start_date)
        IN  /\ policy' = IF valid
                         THEN [policy EXCEPT !.start_date = start_date,
                                             !.end_date = end_date]
                         ELSE policy
            /\ ret' = Returned("set_dates", valid)
            /\ UNCHANGED <<call, result, componentVars>>

\* PolicyManager.update_policy(policy_id, coverage_amount=...) or (premium=...):
\* setattr stores the value as given
update_policy ==
    /\ \/ \E amount \in CoverageInputs : policy' = [policy EXCEPT !.coverage_amount = amount]
       \/ \E premium \in PremiumInputs : policy' = [policy EXCEPT !.premium = premium]
    /\ ret' = Returned("update_policy", TRUE)
    /\ UNCHANGED <<call, result, componentVars>>

\* what Policy.calculate_premium(risk_factors) returns or raises
PolicyPremium(p, risk_factors) ==
    IF RLeqZero(p.coverage_amount) THEN PremiumOk(0)
    ELSE pc_calculate_premium(p.policy_type, p.coverage_amount,
                              pc_calculate_policy_term(p.start_date, p.end_date),
                              risk_factors)

policy_calculate_premium ==
    \E risk_factors \in PolicyRiskFactorInputs :
        LET premium == PolicyPremium(policy, risk_factors)
        IN  /\ policy' = IF ~RLeqZero(policy.coverage_amount) /\ premium.exc = "none"
                         THEN [policy EXCEPT !.premium = premium.val]
                         ELSE policy
            /\ ret' = [op |-> "calculate_premium", exc |-> premium.exc, val |-> premium.val]
            /\ UNCHANGED <<call, result, componentVars>>

NextPolicy ==
    \/ set_coverage_amount
    \/ set_premium
    \/ set_dates
    \/ update_policy
    \/ policy_calculate_premium

SpecPolicy == InitPolicy /\ [][NextPolicy]_vars

(***************************************************************************)
(* calculate_policy_term of src/calculations.py (the same code as the one  *)
(* of src/policy_calculator.py above), called on calendar dates            *)
(* (SpecTerm).  None is NoDate.                                            *)
(***************************************************************************)
MaxYears == 2

IsLeap(y) == (y % 4 = 0 /\ y % 100 # 0) \/ y % 400 = 0

DaysInMonth(y, m) ==
    IF m = 2 THEN (IF IsLeap(y) THEN 29 ELSE 28)
    ELSE IF m \in {4, 6, 9, 11} THEN 30 ELSE 31

DayInputs == {1, 10, 15, 28, 31}

\* the datetime values strptime("%Y-%m-%d") can produce, and None
TermDateInputs ==
    {NoDate} \cup
    {Date(y, m, d) : <<y, m, d>> \in
        {t \in (2024 .. 2023 + MaxYears) \X (1 .. 12) \X DayInputs :
            t[3] <= DaysInMonth(t[1], t[2])}}

\* if not start_date or not end_date or end_date <= start_date: return 0
TermIsZero_StrictlyBefore(start_date, end_date) ==
    start_date = NoDate \/ end_date = NoDate \/ DateAfter(start_date, end_date)

TermIsZero(start_date, end_date) ==
    start_date = NoDate \/ end_date = NoDate \/ ~DateAfter(end_date, start_date)

\* months, after the day-of-month adjustment
WholeMonths_NoDayAdjustment(start_date, end_date) ==
    (end_date.year - start_date.year) * 12 + (end_date.month - start_date.month)

WholeMonths(start_date, end_date) ==
    LET months == (end_date.year - start_date.year) * 12
                      + (end_date.month - start_date.month)
    IN  IF end_date.day < start_date.day THEN months - 1 ELSE months

calculate_policy_term_NoMinimum(start_date, end_date) ==
    IF TermIsZero(start_date, end_date) THEN 0
    ELSE WholeMonths(start_date, end_date)

calculate_policy_term(start_date, end_date) ==
    IF TermIsZero(start_date, end_date) THEN 0
    ELSE Max(WholeMonths(start_date, end_date), 1)

TermCall(fn, start_date, end_date) ==
    [fn |-> fn, start_date |-> start_date, end_date |-> end_date]

CallCalculatePolicyTerm ==
    /\ call.fn = "none"
    /\ \E s \in TermDateInputs, e \in TermDateInputs :
            /\ call' = TermCall("calculate_policy_term", s, e)
            /\ result' = Ok(calculate_policy_term(s, e))
            /\ UNCHANGED <<policy, ret, componentVars>>

CallPcCalculatePolicyTerm ==
    /\ call.fn = "none"
    /\ \E s \in TermDateInputs, e \in TermDateInputs :
            /\ call' = TermCall("pc_calculate_policy_term", s, e)
            /\ result' = Ok(pc_calculate_policy_term(s, e))
            /\ UNCHANGED <<policy, ret, componentVars>>

NextTerm ==
    \/ Return
    \/ CallCalculatePolicyTerm
    \/ CallPcCalculatePolicyTerm

SpecTerm == InitCalc /\ [][NextTerm]_vars

(***************************************************************************)
(* policy_calculator.RiskScore and the four risk-score functions of        *)
(* policy_calculator.PolicyCalculator (SpecScore).  A list is a sequence,  *)
(* a dict of numbers a function from key strings to rationals.             *)
(***************************************************************************)
MaxAccidents == 3
MaxRelatives == 2

RMin(a, b) == IF RGreater(a, b) THEN b ELSE a

RMax(a, b) == IF RGreater(b, a) THEN b ELSE a

Tenths(k) == Rat(k, 10)

\* sum(d.values())
RECURSIVE SumValues(_)
SumValues(d) ==
    IF DOMAIN d = {} THEN RInt(0)
    ELSE LET k == CHOOSE k \in DOMAIN d : TRUE
         IN  RAdd(d[k], SumValues([j \in DOMAIN d \ {k} |-> d[j]]))

\* RiskScore.__init__
RiskScore(base_score, confidence) ==
    [base_score |-> base_score, confidence |-> confidence, factors |-> EmptyMapping]

\* RiskScore.add_factor
add_factor(risk_score, name, value) ==
    [risk_score EXCEPT !.factors =
        [k \in DOMAIN risk_score.factors \cup {name} |->
            IF k = name THEN value ELSE risk_score.factors[k]]]

\* both age tests applied one after the other
CarAgeRisk_BothBrackets(driver_age) ==
    RAdd(IF driver_age < 25 \/ driver_age > 70 THEN Tenths(3) ELSE RInt(0),
         IF driver_age < 30 \/ driver_age > 60 THEN Tenths(2) ELSE RInt(0))

\* if driver_age < 25 or driver_age > 70 ... elif driver_age < 30 or driver_age > 60
CarAgeRisk(driver_age) ==
    IF driver_age < 25 \/ driver_age > 70 THEN Tenths(3)
    ELSE IF driver_age < 30 \/ driver_age > 60 THEN Tenths(2)
    ELSE RInt(0)

calculate_car_risk_score(driver_age, vehicle_score, accident_history, location_risk) ==
    LET raw == RAdd(RAdd(RAdd(CarAgeRisk(driver_age), vehicle_score),
                         RMul(RInt(Len(accident_history)), Tenths(2))),
                    location_risk)
        base_score == RMin(One, raw)
        r0 == RiskScore(base_score, Rat(95, 100))
        r1 == add_factor(r0, "age", RInt(driver_age))
        r2 == add_factor(r1, "vehicle", vehicle_score)
        r3 == add_factor(r2, "accidents", RInt(Len(accident_history)))
    IN  add_factor(r3, "location", location_risk)

calculate_health_risk_score(age, medical_history, lifestyle_score, occupation_risk) ==
    LET age_factor == RMul(RInt(age), Rat(1, 100))
        medical_score == Get(medical_history, "current_health", Rat(5, 10))
        total == RAdd(RAdd(RAdd(age_factor, medical_score), lifestyle_score),
                      occupation_risk)
        base_score == RMin(One, RDivInt(total, 4))
        r0 == RiskScore(base_score, Rat(95, 100))
        r1 == add_factor(r0, "age", age_factor)
        r2 == add_factor(r1, "medical", medical_score)
        r3 == add_factor(r2, "lifestyle", lifestyle_score)
    IN  add_factor(r3, "occupation", occupation_risk)

\* base_score clamped at the top only
ClampUnit_TopOnly(x) == RMin(One, x)

\* max(0.0, min(1.0, base_score))
ClampUnit(x) == RMax(RInt(0), RMin(One, x))

calculate_property_risk_score(location_data, property_details, security_score, building_age) ==
    LET natural_disaster_risk == Get(location_data, "natural_disaster", RInt(0))
        crime_rate == Get(location_data, "crime_rate", RInt(0))
        age_factor == RMin(One, RMul(RInt(building_age), Rat(2, 100)))
        condition_score ==
            RDivInt(RAdd(RAdd(Get(property_details, "construction_quality", Rat(5, 10)),
                              Get(property_details, "maintenance", Rat(5, 10))),
                         Get(property_details, "utilities_condition", Rat(5, 10))), 3)
        total == RAdd(RAdd(RAdd(RAdd(natural_disaster_risk, crime_rate), age_factor),
                           RMul(RInt(-1), security_score)),
                      condition_score)
        r0 == RiskScore(ClampUnit(total), Rat(95, 100))
        r1 == add_factor(r0, "location",
                         RDivInt(RAdd(natural_disaster_risk, crime_rate), 2))
        r2 == add_factor(r1, "age", age_factor)
        r3 == add_factor(r2, "security", security_score)
    IN  add_factor(r3, "condition", condition_score)

\* the number of lifestyle entries in place of their sum
LifestyleRisk_Count(lifestyle_factors) == RInt(Cardinality(DOMAIN lifestyle_factors))

\* lifestyle_risk = sum(lifestyle_factors.values())
LifestyleRisk(lifestyle_factors) == SumValues(lifestyle_factors)

\* the same reduction for both missing inputs
LifeConfidence_SameReduction(lifestyle_factors, family_history) ==
    LET c1 == IF DOMAIN lifestyle_factors = {}
              THEN RMul(Rat(95, 100), Rat(9, 10)) ELSE Rat(95, 100)
    IN  IF family_history = <<>> THEN RMul(c1, Rat(9, 10)) ELSE c1

\* confidence = 0.95; *= 0.9 if not lifestyle_factors; *= 0.95 if not family_history
LifeConfidence(lifestyle_factors, family_history) ==
    LET c1 == IF DOMAIN lifestyle_factors = {}
              THEN RMul(Rat(95, 100), Rat(9, 10)) ELSE Rat(95, 100)
    IN  IF family_history = <<>> THEN RMul(c1, Rat(95, 100)) ELSE c1

calculate_life_risk_score(age, health_score, lifestyle_factors, family_history) ==
    LET age_factor == RMul(Rat(1, 100), RInt(age))
        health_factor == health_score
        lifestyle_risk == LifestyleRisk(lifestyle_factors)
        family_risk == RMul(Rat(1, 10), RInt(Len(family_history)))
        total == RAdd(RAdd(RAdd(age_factor, health_factor), lifestyle_risk), family_risk)
        base_score == RMin(One, RDivInt(total, 4))
        r0 == RiskScore(base_score, Rat(95, 100))
        r1 == add_factor(r0, "age", age_factor)
        r2 == add_factor(r1, "health", health_factor)
        r3 == add_factor(r2, "lifestyle", lifestyle_risk)
        r4 == add_factor(r3, "family_history", family_risk)
    IN  [r4 EXCEPT !.confidence = LifeConfidence(lifestyle_factors, family_history)]

(***************************************************************************)
(* The scores asked for: ages and counts as the entry forms read them      *)
(* (int(input(...)), float(input(...)), not range-checked), dicts with and *)
(* without their optional keys.                                            *)
(***************************************************************************)
DriverAgeInputs == {18, 24, 25, 29, 30, 45, 60, 61, 70, 71, 80}

ScoreInputs == {Rat(-1, 2), RInt(0), Tenths(3), Tenths(9)}

\* accident_history: a list of accident records
AccidentHistoryInputs ==
    {[i \in 1 .. n |-> [date |-> "2023"]] : n \in 0 .. MaxAccidents}

AgeInputs == {-40, 0, 40, 120}

MedicalHistoryInputs ==
    {EmptyMapping} \cup {[current_health |-> h] : h \in {RInt(-2), Tenths(2), Tenths(9), RInt(2)}}

LifestyleScoreInputs == {RInt(0), Tenths(5), RInt(1)}

OccupationRiskInputs == {Tenths(2), Tenths(5), Tenths(8)}

HealthScoreInputs == {Tenths(2), Tenths(5), Tenths(8)}

LifestyleFactorsInputs ==
    {EmptyMapping, [smoking |-> RInt(0)], [smoking |-> RInt(1)],
     [smoking |-> RInt(1), alcohol |-> RInt(3)]}

FamilyHistoryInputs ==
    {[i \in 1 .. n |-> "illness"] : n \in 0 .. MaxRelatives}

LocationDataInputs ==
    {EmptyMapping,
     [natural_disaster |-> Tenths(3)],
     [crime_rate |-> Tenths(5)],
     [natural_disaster |-> Tenths(3), crime_rate |-> Tenths(5)],
     [natural_disaster |-> RInt(1), crime_rate |-> Tenths(5),
      property_value_trend |-> Tenths(5)]}

PropertyDetailsInputs ==
    {EmptyMapping,
     [maintenance |-> Tenths(1)],
     [construction_quality |-> Tenths(7), maintenance |-> Tenths(7),
      utilities_condition |-> Tenths(7)]}

SecurityScoreInputs == {RInt(0), Tenths(2), Tenths(8), RInt(2)}

BuildingAgeInputs == {0, 10, 50, 80}

ScoreCall(fn, args) == [fn |-> fn, args |-> args]

CallCalculateCarRiskScore ==
    /\ call.fn = "none"
    /\ \E a \in DriverAgeInputs, v \in ScoreInputs, h \in AccidentHistoryInputs,
          l \in ScoreInputs :
            /\ call' = ScoreCall("calculate_car_risk_score",
                                 [driver_age |-> a, vehicle_score |-> v,
                                  accident_history |-> h, location_risk |-> l])
            /\ result' = Ok(calculate_car_risk_score(a, v, h, l))
            /\ UNCHANGED <<policy, ret, componentVars>>

CallCalculateHealthRiskScore ==
    /\ call.fn = "none"
    /\ \E a \in AgeInputs, m \in MedicalHistoryInputs, l \in LifestyleScoreInputs,
          o \in OccupationRiskInputs :
            /\ call' = ScoreCall("calculate_health_risk_score",
                                 [age |-> a, medical_history |-> m,
                                  lifestyle_score |-> l, occupation_risk |-> o])
            /\ result' = Ok(calculate_health_risk_score(a, m, l, o))
            /\ UNCHANGED <<policy, ret, componentVars>>

CallCalculatePropertyRiskScore ==
    /\ call.fn = "none"
    /\ \E l \in LocationDataInputs, d \in PropertyDetailsInputs,
          s \in SecurityScoreInputs, b \in BuildingAgeInputs :
            /\ call' = ScoreCall("calculate_property_risk_score",
                                 [location_data |-> l, property_details |-> d,
                                  security_score |-> s, building_age |-> b])
            /\ result' = Ok(calculate_property_risk_score(l, d, s, b))
            /\ UNCHANGED <<policy, ret, componentVars>>

CallCalculateLifeRiskScore ==
    /\ call.fn = "none"
    /\ \E a \in AgeInputs, h \in HealthScoreInputs, l \in LifestyleFactorsInputs,
          f \in FamilyHistoryInputs :
            /\ call' = ScoreCall("calculate_life_risk_score",
                                 [age |-> a, health_score |-> h,
                                  lifestyle_factors |-> l, family_history |-> f])
            /\ result' = Ok(calculate_life_risk_score(a, h, l, f))
            /\ UNCHANGED <<policy, ret, componentVars>>

NextScore ==
    \/ Return
    \/ CallCalculateCarRiskScore
    \/ CallCalculateHealthRiskScore
    \/ CallCalculatePropertyRiskScore
    \/ CallCalculateLifeRiskScore

SpecScore == InitCalc /\ [][NextScore]_vars

(***************************************************************************)
(* Several callers using the calculators at once (SpecPure).  tables holds *)
(* the class attributes the calls read; pending[c] is caller c's call: its *)
(* argument objects, the base rate the call has read so far, its result.   *)
(* A call takes two steps, so that the calls of different callers          *)
(* interleave between the read of the rate table and the computation.      *)
(***************************************************************************)
MaxCallers == 2

Callers == 1 .. MaxCallers

Idle == [stage |-> "idle"]

PremiumArgs(policy_type, coverage_amount, term_months, risk_factors) ==
    [policy_type |-> policy_type, coverage_amount |-> coverage_amount,
     term_months |-> term_months, risk_factors |-> risk_factors]

\* the calls the callers make
PureCalls ==
    {[fn |-> "calculate_premium",
      args |-> PremiumArgs("CAR", RInt(1100), 1,
                           [driving_history |-> StrV(S_accidents),
                            vehicle_age |-> NumV(RInt(12))])],
     [fn |-> "calculate_premium",
      args |-> PremiumArgs("BOAT", RInt(1100), 3, EmptyMapping)],
     [fn |-> "calculate_premium",
      args |-> PremiumArgs("HEALTH", RInt(2200), 12, [pre_conditions |-> NumV(RInt(2))])],
     [fn |-> "pc_calculate_premium",
      args |-> PremiumArgs("CAR", RInt(1100), 12, [base_score |-> NumV(Rat(5, 10))])],
     [fn |-> "calculate_policy_term",
      args |-> [start_date |-> Date(2024, 1, 15), end_date |-> Date(2025, 1, 10)]],
     [fn |-> "calculate_car_risk_score",
      args |-> [driver_age |-> 80, vehicle_score |-> Tenths(9),
                accident_history |-> <<[date |-> "2023"]>>, location_risk |-> Tenths(2)]],
     [fn |-> "calculate_health_risk_score",
      args |-> [age |-> 40, medical_history |-> [current_health |-> Tenths(2)],
                lifestyle_score |-> Tenths(5), occupation_risk |-> Tenths(8)]],
     [fn |-> "calculate_property_risk_score",
      args |-> [location_data |-> [natural_disaster |-> Tenths(3)],
                property_details |-> [maintenance |-> Tenths(1)],
                security_score |-> Tenths(2), building_age |-> 10]],
     [fn |-> "calculate_life_risk_score",
      args |-> [age |-> 40, health_score |-> Tenths(5),
                lifestyle_factors |-> [smoking |-> RInt(1)],
                family_history |-> <<"illness">>]]}

IsPremiumFn(fn) == fn \in {"calculate_premium", "pc_calculate_premium"}

\* base_rate = PolicyCalculator.BASE_RATES.get(policy_type, 0.03): the value
\* read, from the table of the class the function belongs to
RateRead(t, fn, policy_type) ==
    Get(IF fn = "calculate_premium" THEN t.BASE_RATES ELSE t.pc_BASE_RATES,
        policy_type, Rat(3, 100))

\* the lookup done with setdefault, which stores the default it returns
TablesAfterRead_StoresDefault(t, policy_type) ==
    [t EXCEPT !.BASE_RATES =
        [k \in DOMAIN t.BASE_RATES \cup {policy_type} |->
            RateRead(t, "calculate_premium", k)]]

\* the tables after BASE_RATES.get(...): dict.get stores nothing
TablesAfterRead(t, policy_type) == t

\* lines 53-64 (calculations.py) and 57-68 (policy_calculator.py), from the
\* rate already read
PremiumFromRate(fn, base_rate, a) ==
    IF RLeqZero(a.coverage_amount) \/ a.term_months <= 0
    THEN (IF fn = "calculate_premium" THEN PremiumOk(0) ELSE PremiumRaise("ValueError"))
    ELSE LET multiplier ==
                 IF DOMAIN a.risk_factors = {} THEN Ok(One)
                 ELSE IF fn = "calculate_premium"
                      THEN calculate_risk_multiplier(a.policy_type, a.risk_factors)
                      ELSE pc_calculate_risk_multiplier(a.policy_type, a.risk_factors)
         IN  IF multiplier.exc # "none" THEN PremiumRaise(multiplier.exc)
             ELSE PremiumOk(Round2(RMul(RMul(RMul(a.coverage_amount, base_rate),
                                             TermYears(a.term_months)),
                                        multiplier.val)))

\* what the call returns, computed in its second step
PureResult(fn, base_rate, a) ==
    IF IsPremiumFn(fn) THEN PremiumFromRate(fn, base_rate, a)
    ELSE IF fn = "calculate_policy_term"
    THEN Ok(calculate_policy_term(a.start_date, a.end_date))
    ELSE IF fn = "calculate_car_risk_score"
    THEN Ok(calculate_car_risk_score(a.driver_age, a.vehicle_score,
                                     a.accident_history, a.location_risk))
    ELSE IF fn = "calculate_health_risk_score"
    THEN Ok(calculate_health_risk_score(a.age, a.medical_history,
                                        a.lifestyle_score, a.occupation_risk))
    ELSE IF fn = "calculate_property_risk_score"
    THEN Ok(calculate_property_risk_score(a.location_data, a.property_details,
                                          a.security_score, a.building_age))
    ELSE Ok(calculate_life_risk_score(a.age, a.health_score,
                                      a.lifestyle_factors, a.family_history))

InitPure ==
    /\ call = NoCall
    /\ result = PremiumOk(0)
    /\ policy = NoPolicy
    /\ ret = PremiumOk(0)
    /\ tables = ClassTables
    /\ pending = [c \in Callers |-> Idle]
    /\ payment = <<>>
    /\ customer = <<>>
    /\ storage = <<>>
    /\ underwriter = <<>>

pureFrame == <<call, result, policy, ret, payment, customer, storage, underwriter>>

\* caller c enters a function; a premium function reads the rate table
Enter(c) ==
    /\ pending[c].stage = "idle"
    /\ \E k \in PureCalls :
            /\ pending' = [pending EXCEPT ![c] =
                    [stage |-> "entered", fn |-> k.fn, args |-> k.args,
                     base_rate |-> IF IsPremiumFn(k.fn)
                                   THEN RateRead(tables, k.fn, k.args.policy_type)
                                   ELSE RInt(0)]]
            /\ tables' = IF IsPremiumFn(k.fn)
                         THEN TablesAfterRead(tables, k.args.policy_type)
                         ELSE tables
    /\ UNCHANGED pureFrame

\* the call of caller c computes its result and returns
Leave(c) ==
    /\ pending[c].stage = "entered"
    /\ pending' = [pending EXCEPT ![c] =
            [stage |-> "returned", fn |-> pending[c].fn, args |-> pending[c].args,
             result |-> PureResult(pending[c].fn, pending[c].base_rate, pending[c].args)]]
    /\ UNCHANGED tables
    /\ UNCHANGED pureFrame

\* caller c has used the result
Resume(c) ==
    /\ pending[c].stage = "returned"
    /\ pending' = [pending EXCEPT ![c] = Idle]
    /\ UNCHANGED tables
    /\ UNCHANGED pureFrame

NextPure ==
    \E c \in Callers : Enter(c) \/ Leave(c) \/ Resume(c)

SpecPure == InitPure /\ [][NextPure]_vars

(***************************************************************************)
(* Policy.update_status (SpecStatus).  A request is the argument passed:   *)
(* a PolicyStatus member, a str with a member's name, or None.             *)
(***************************************************************************)
PolicyStatus ==
    {"PENDING", "APPROVED", "REJECTED", "ACTIVE", "INACTIVE", "EXPIRED", "CANCELLED"}

StatusRequests ==
    [kind : {"PolicyStatus", "str"}, name : PolicyStatus]
        \cup {[kind |-> "NoneType", name |-> "None"]}

\* EXPIRED may be reactivated
valid_transitions_ExpiredReactivates ==
    [s \in PolicyStatus |->
        CASE s = "PENDING"  -> {"APPROVED", "REJECTED", "CANCELLED"}
          [] s = "APPROVED" -> {"ACTIVE", "CANCELLED"}
          [] s = "REJECTED" -> {"CANCELLED"}
          [] s = "ACTIVE"   -> {"INACTIVE", "EXPIRED", "CANCELLED"}
          [] s = "INACTIVE" -> {"ACTIVE", "EXPIRED", "CANCELLED"}
          [] s = "EXPIRED"  -> {"ACTIVE", "CANCELLED"}
          [] OTHER          -> {}]

valid_transitions ==
    [s \in PolicyStatus |->
        CASE s = "PENDING"  -> {"APPROVED", "REJECTED", "CANCELLED"}
          [] s = "APPROVED" -> {"ACTIVE", "CANCELLED"}
          [] s = "REJECTED" -> {"CANCELLED"}
          [] s = "ACTIVE"   -> {"INACTIVE", "EXPIRED", "CANCELLED"}
          [] s = "INACTIVE" -> {"ACTIVE", "EXPIRED", "CANCELLED"}
          [] s = "EXPIRED"  -> {"CANCELLED"}
          [] OTHER          -> {}]

\* isinstance(status, PolicyStatus) and status in valid_transitions.get(self.status, [])
StatusAccepted(current, status) ==
    /\ status.kind = "PolicyStatus"
    /\ current \in PolicyStatus
    /\ status.name \in valid_transitions[current]

\* the policy after p.update_status(status)
UpdatedStatus(p, status) ==
    IF StatusAccepted(p.status, status) THEN [p EXCEPT !.status = status.name] ELSE p

update_status ==
    \E status \in StatusRequests :
        /\ policy' = UpdatedStatus(policy, status)
        /\ call' = [fn |-> "update_status", status |-> status]
        /\ ret' = Returned("update_status", StatusAccepted(policy.status, status))
        /\ UNCHANGED <<result, componentVars>>

NextStatus == update_status

SpecStatus == InitPolicy /\ [][NextStatus]_vars

(***************************************************************************)
(* payment.Payment (SpecPayment).  Amounts are whole currency units.       *)
(***************************************************************************)
MaxAmount == 2

PaymentIdInputs == {"", "PAY_CLM1"}

PolicyIdInputs == {"", "POL1"}

AmountInputs == -1 .. MaxAmount

StatusInputs == {"PENDING", "COMPLETED", "FAILED", "REFUNDED", "CANCELLED"}

MethodInputs == {"BANK_TRANSFER", "CREDIT_CARD", "CHECK", "CASH", ""}

valid_statuses == {"PENDING", "COMPLETED", "FAILED"}

valid_methods == {"BANK_TRANSFER", "CREDIT_CARD", "CHECK"}

\* Payment.__init__
NewPayment(payment_id, policy_id) ==
    [payment_id |-> payment_id, policy_id |-> policy_id, amount |-> 0,
     payment_status |-> "PENDING", payment_method |-> "", transaction_id |-> <<>>]

\* f"TXN_{payment_id}"
TransactionId(payment_id) == <<"TXN_", payment_id>>

Answer(op, val) == [op |-> op, val |-> val]

paymentFrame == <<call, result, policy, tables, pending, customer, storage, underwriter>>

InitPayment ==
    /\ call = NoCall
    /\ result = PremiumOk(0)
    /\ policy = NoPolicy
    /\ ret = Answer("__init__", TRUE)
    /\ tables = <<>>
    /\ pending = <<>>
    /\ \E payment_id \in PaymentIdInputs, policy_id \in PolicyIdInputs :
            payment = NewPayment(payment_id, policy_id)
    /\ customer = <<>>
    /\ storage = <<>>
    /\ underwriter = <<>>

payment_set_amount ==
    \E amount \in AmountInputs :
        /\ payment' = IF amount > 0 THEN [payment EXCEPT !.amount = amount] ELSE payment
        /\ ret' = Answer("set_amount", amount > 0)
        /\ UNCHANGED paymentFrame

payment_set_status ==
    \E status \in StatusInputs :
        /\ payment' = IF status \in valid_statuses
                      THEN [payment EXCEPT !.payment_status = status]
                      ELSE payment
        /\ ret' = Answer("set_status", status \in valid_statuses)
        /\ UNCHANGED paymentFrame

set_payment_method ==
    \E method \in MethodInputs :
        /\ payment' = IF method \in valid_methods
                      THEN [payment EXCEPT !.payment_method = method]
                      ELSE payment
        /\ ret' = Answer("set_payment_method", method \in valid_methods)
        /\ UNCHANGED paymentFrame

\* all([payment_id, policy_id, amount > 0, payment_method])
Processable(p) ==
    p.payment_id # "" /\ p.policy_id # "" /\ p.amount > 0 /\ p.payment_method # ""

process_payment ==
    /\ payment' = IF Processable(payment)
                  THEN [payment EXCEPT !.payment_status = "COMPLETED",
                                       !.transaction_id = TransactionId(payment.payment_id)]
                  ELSE payment
    /\ ret' = Answer("process_payment", Processable(payment))
    /\ UNCHANGED paymentFrame

\* every status but PENDING accepted for a refund
Refundable_NotPending(p) == p.payment_status # "PENDING"

\* if self.payment_status == "COMPLETED"
Refundable(p) == p.payment_status = "COMPLETED"

refund_payment ==
    /\ payment' = IF Refundable(payment)
                  THEN [payment EXCEPT !.payment_status = "REFUNDED"]
                  ELSE payment
    /\ ret' = Answer("refund_payment", Refundable(payment))
    /\ UNCHANGED paymentFrame

NextPayment ==
    \/ payment_set_amount
    \/ payment_set_status
    \/ set_payment_method
    \/ process_payment
    \/ refund_payment

SpecPayment == InitPayment /\ [][NextPayment]_vars

(***************************************************************************)
(* customer.Customer: the policies and claims a customer holds.  A held    *)
(* policy carries its id, its owner, its status and whether its dates are  *)
(* set.                                                                    *)
(***************************************************************************)
MaxPolicies == 2

MaxClaims == 2

MaxStored == 1

Emails == {"c@x", "d@x"}

PolicyIds == {"P1", "P2"}

\* Customer.__init__
NewCustomer(email) == [email |-> email, policies |-> <<>>, claims |-> <<>>]

\* the place of a Customer where None is returned
NoCustomer == NewCustomer("")

\* Policy.__init__, with set_dates called or not
HeldPolicy(policy_id, customer_id, dated) ==
    [policy_id |-> policy_id, customer_id |-> customer_id,
     status |-> "PENDING", dated |-> dated]

\* Claim.__init__
NewClaim(claim_id, policy_id, customer_id) ==
    [claim_id |-> claim_id, policy_id |-> policy_id, customer_id |-> customer_id]

Done(op, arg, ok, val) == [op |-> op, arg |-> arg, ok |-> ok, val |-> val]

\* Customer.add_policy
PolicyAdded(c, p) ==
    IF p.customer_id = c.email
    THEN [c EXCEPT !.policies = Append(@, p)]
    ELSE c

InitCustomer ==
    /\ call = NoCall
    /\ result = PremiumOk(0)
    /\ policy = NoPolicy
    /\ ret = Done("__init__", "c@x", TRUE, NoCustomer)
    /\ tables = <<>>
    /\ pending = <<>>
    /\ payment = <<>>
    /\ customer = NewCustomer("c@x")
    /\ storage = <<>>
    /\ underwriter = <<>>

customerFrame == <<call, result, policy, tables, pending, payment, storage, underwriter>>

add_policy ==
    /\ Len(customer.policies) < MaxPolicies
    /\ \E policy_id \in PolicyIds, customer_id \in Emails :
         LET p == HeldPolicy(policy_id, customer_id, TRUE) IN
            /\ customer' = PolicyAdded(customer, p)
            /\ ret' = Done("add_policy", p, p.customer_id = customer.email, NoCustomer)
            /\ UNCHANGED customerFrame

\* update_status on the i-th policy the customer holds
held_update_status ==
    \E i \in 1 .. Len(customer.policies), name \in PolicyStatus :
        LET status == [kind |-> "PolicyStatus", name |-> name] IN
            /\ customer' = [customer EXCEPT
                              !.policies[i] = UpdatedStatus(@, status)]
            /\ ret' = Done("update_status", status,
                           StatusAccepted(customer.policies[i].status, status), NoCustomer)
            /\ UNCHANGED customerFrame

\* a held policy with the claim's id, whatever its status
ClaimedPolicyActive_AnyStatus(c, claim) ==
    \E i \in 1 .. Len(c.policies) : c.policies[i].policy_id = claim.policy_id

\* next((p for p in self.policies if p.get_policy_id() == claim.policy_id), None)
\* is a policy and its status is ACTIVE
ClaimedPolicyActive(c, claim) ==
    /\ \E i \in 1 .. Len(c.policies) : c.policies[i].policy_id = claim.policy_id
    /\ LET first == CHOOSE i \in 1 .. Len(c.policies) :
                        /\ c.policies[i].policy_id = claim.policy_id
                        /\ \A j \in 1 .. i - 1 : c.policies[j].policy_id # claim.policy_id
       IN  c.policies[first].status = "ACTIVE"

ClaimAccepted(c, claim) ==
    claim.customer_id = c.email /\ ClaimedPolicyActive(c, claim)

add_claim ==
    /\ Len(customer.claims) < MaxClaims
    /\ \E policy_id \in PolicyIds, customer_id \in Emails :
         LET claim == NewClaim("CLM1", policy_id, customer_id) IN
            /\ customer' = IF ClaimAccepted(customer, claim)
                           THEN [customer EXCEPT !.claims = Append(@, claim)]
                           ELSE customer
            /\ ret' = Done("add_claim", claim, ClaimAccepted(customer, claim), NoCustomer)
            /\ UNCHANGED customerFrame

NextCustomer ==
    \/ add_policy
    \/ held_update_status
    \/ add_claim

SpecCustomer == InitCustomer /\ [][NextCustomer]_vars

(***************************************************************************)
(* policy_json_handler.PolicyJSONHandler (SpecStore).  A dict is the       *)
(* sequence of its items in insertion order; the data file is absent or    *)
(* holds one dict keyed by email.                                          *)
(***************************************************************************)
DictKeys(d) == {d[i].key : i \in 1 .. Len(d)}

DictGet(d, k) == d[CHOOSE i \in 1 .. Len(d) : d[i].key = k].value

\* d[k] = v
DictPut(d, k, v) ==
    IF k \in DictKeys(d)
    THEN [i \in 1 .. Len(d) |-> IF d[i].key = k THEN [key |-> k, value |-> v] ELSE d[i]]
    ELSE Append(d, [key |-> k, value |-> v])

NoFile == [exists |-> FALSE, data |-> <<>>]

\* PolicyStatus.<name>.value
StatusValue ==
    [s \in PolicyStatus |->
        CASE s = "PENDING" -> 1 [] s = "APPROVED" -> 2 [] s = "REJECTED" -> 3
          [] s = "ACTIVE" -> 4 [] s = "INACTIVE" -> 5 [] s = "EXPIRED" -> 6
          [] OTHER -> 7]

\* str(n) for a one-digit n
Str(n) == <<CHOOSE c \in DOMAIN DigitValue : DigitValue[c] = n>>

\* Policy.to_dict with the status made a string
SavedPolicy(p) == [status |-> Str(StatusValue[p.status]), dated |-> p.dated]

RECURSIVE SavedPolicies(_)
SavedPolicies(policies) ==
    IF policies = <<>> THEN <<>>
    ELSE LET last == policies[Len(policies)] IN
            DictPut(SavedPolicies(SubSeq(policies, 1, Len(policies) - 1)),
                    last.policy_id, SavedPolicy(last))

SavedCustomer(c) ==
    [customer_info |-> [email |-> c.email], policies |-> SavedPolicies(c.policies)]

\* PolicyStatus(int(status_val)) for a string of digits
StatusOfString(status_val) ==
    CHOOSE s \in PolicyStatus : StatusValue[s] = ParseDigits(status_val)

\* the policy rebuilt from one stored item
LoadedPolicy(email, item) ==
    UpdatedStatus(HeldPolicy(item.key, email, item.value.dated),
                  [kind |-> "PolicyStatus", name |-> StatusOfString(item.value.status)])

RECURSIVE LoadedPolicies(_, _)
LoadedPolicies(c, items) ==
    IF items = <<>> THEN c
    ELSE PolicyAdded(LoadedPolicies(c, SubSeq(items, 1, Len(items) - 1)),
                     LoadedPolicy(c.email, items[Len(items)]))

\* a stored start_date of None has no split: the load is abandoned
Loadable(file, email) ==
    /\ file.exists
    /\ email \in DictKeys(file.data)
    /\ \A i \in 1 .. Len(DictGet(file.data, email).policies) :
            DictGet(file.data, email).policies[i].value.dated

Loaded(file, email) ==
    IF Loadable(file, email)
    THEN LET stored == DictGet(file.data, email) IN
            LoadedPolicies(NewCustomer(stored.customer_info.email), stored.policies)
    ELSE NoCustomer

InitStore ==
    /\ call = NoCall
    /\ result = PremiumOk(0)
    /\ policy = NoPolicy
    /\ ret = Done("__init__", "c@x", TRUE, NoCustomer)
    /\ tables = <<>>
    /\ pending = <<>>
    /\ payment = <<>>
    /\ customer = NewCustomer("c@x")
    /\ storage = NoFile
    /\ underwriter = <<>>

storeFrame == <<call, result, policy, tables, pending, payment, underwriter>>

\* a policy built for the customer and added, its dates set or not
store_add_policy ==
    /\ Len(customer.policies) < MaxStored
    /\ \E policy_id \in PolicyIds, dated \in BOOLEAN :
         LET p == HeldPolicy(policy_id, customer.email, dated) IN
            /\ customer' = PolicyAdded(customer, p)
            /\ ret' = Done("add_policy", p, TRUE, NoCustomer)
            /\ UNCHANGED <<storage, storeFrame>>

store_update_status ==
    /\ held_update_status
    /\ UNCHANGED storage

save_policies_to_json ==
    /\ storage' = [exists |-> TRUE,
                   data |-> DictPut(storage.data, customer.email, SavedCustomer(customer))]
    /\ ret' = Done("save_policies_to_json", customer.email, TRUE, NoCustomer)
    /\ UNCHANGED <<customer, storeFrame>>

load_policies_from_json ==
    \E email \in Emails :
        /\ ret' = Done("load_policies_from_json", email,
                       Loadable(storage, email), Loaded(storage, email))
        /\ UNCHANGED <<customer, storage, storeFrame>>

NextStore ==
    \/ store_add_policy
    \/ store_update_status
    \/ save_policies_to_json
    \/ load_policies_from_json

SpecStore == InitStore /\ [][NextStore]_vars

(***************************************************************************)
(* data_storage_service.DataStorageService and Customer.save_to_json       *)
(* (SpecStorage).  Both write data/customer_data.json: the service keeps   *)
(* one record per email, save_to_json writes one customer's record as the  *)
(* whole file.  A stored object is described by its customer_info (the     *)
(* email, or "absent" when the key is missing), its policies and its       *)
(* other items.                                                            *)
(***************************************************************************)
StoredObject(info, has_policies, policies, rest) ==
    [customer_info |-> info, has_policies |-> has_policies,
     policies |-> policies, rest |-> rest]

\* {"customer_info": {...}, "policies": {...}}
CustomerRecord(email, policies) == StoredObject(email, TRUE, policies, <<>>)

RECURSIVE DictUpdate(_, _)
\* d.update(items)
DictUpdate(d, items) ==
    IF items = <<>> THEN d
    ELSE DictPut(DictUpdate(d, SubSeq(items, 1, Len(items) - 1)),
                 items[Len(items)].key, items[Len(items)].value)

\* one item of the data in clean_customer_data: kept, rebuilt from its
\* customer_info and policies, only when it has a customer_info
CleanedItem(item) ==
    IF item.value.customer_info # "absent"
    THEN <<[key |-> item.key,
            value |-> CustomerRecord(item.value.customer_info,
                                     IF item.value.has_policies
                                     THEN DictUpdate(<<>>, item.value.policies)
                                     ELSE <<>>)]>>
    ELSE <<>>

RECURSIVE clean_customer_data(_)
clean_customer_data(data) ==
    IF data = <<>> THEN <<>>
    ELSE clean_customer_data(SubSeq(data, 1, Len(data) - 1)) \o CleanedItem(data[Len(data)])

\* the contents of the file after DataStorageService.save_customer_data(c)
SavedCustomerData(file, c) ==
    LET existing_data == IF file.exists THEN file.data ELSE <<>>
        cleaned_data == clean_customer_data(existing_data)
        kept == IF c.email \in DictKeys(cleaned_data)
                THEN DictGet(cleaned_data, c.email).policies
                ELSE <<>>
        customer_data == CustomerRecord(c.email, DictUpdate(kept, SavedPolicies(c.policies)))
    IN  [exists |-> TRUE, data |-> DictPut(cleaned_data, c.email, customer_data)]

\* the contents of the file after c.save_to_json("customer_data.json")
SavedToJson(c) ==
    [exists |-> TRUE,
     data |-> << [key |-> "customer_info",
                  value |-> StoredObject("absent", FALSE, <<>>,
                                         <<[key |-> "email", value |-> c.email]>>)],
                 [key |-> "policies",
                  value |-> StoredObject("absent", FALSE, <<>>,
                                         SavedPolicies(c.policies))] >>]

InitStorage == InitStore

\* a Customer object for the one who logs in
new_session ==
    \E email \in Emails :
        /\ customer' = NewCustomer(email)
        /\ ret' = Done("__init__", email, TRUE, NoCustomer)
        /\ UNCHANGED <<storage, storeFrame>>

save_customer_data ==
    /\ storage' = SavedCustomerData(storage, customer)
    /\ ret' = Done("save_customer_data", customer.email, TRUE, NoCustomer)
    /\ UNCHANGED <<customer, storeFrame>>

save_to_json ==
    /\ storage' = SavedToJson(customer)
    /\ ret' = Done("save_to_json", customer.email, TRUE, NoCustomer)
    /\ UNCHANGED <<customer, storeFrame>>

NextStorage ==
    \/ new_session
    \/ store_add_policy
    \/ save_customer_data
    \/ save_to_json

SpecStorage == InitStorage /\ [][NextStorage]_vars

(***************************************************************************)
(* customer.CustomerCLI.request_new_policy (SpecQuote).  The session holds *)
(* the customer and the policy counter; policy ids are POL<counter>.       *)
(***************************************************************************)
MaxRequests == 1

\* PolicyType.get_type_name
TypeOfNumber ==
    [n \in 1 .. 4 |-> CASE n = 1 -> "LIFE" [] n = 2 -> "CAR" [] n = 3 -> "HEALTH"
                        [] OTHER -> "PROPERTY"]

PolicyNumberInputs == 0 .. 4

QuoteCoverageInputs == {RInt(0), RInt(1100), RInt(100000)}

QuoteDateInputs == {Date(2024, 1, 1), Date(2024, 7, 1), Date(2025, 1, 1)}

\* the risk score request_new_policy computes from the answers, per type
RequestedScores(policy_type) ==
    IF policy_type = "LIFE"
    THEN { calculate_life_risk_score(age, health, [smoking |-> RInt(smoker)],
                                     [i \in 1 .. family |-> "illness"]) :
             age \in {30, 60}, health \in {Tenths(2), Tenths(8), Tenths(5)},
             smoker \in {0, 1}, family \in {0, 1} }
    ELSE IF policy_type = "CAR"
    THEN { calculate_car_risk_score(driver_age, RMul(RInt(vehicle_age), Tenths(1)),
                                    [i \in 1 .. accident_count |-> [date |-> "2023"]],
                                    location_risk) :
             driver_age \in {24, 45}, vehicle_age \in {0, 5},
             accident_count \in {0, 1}, location_risk \in {RInt(0), Tenths(3)} }
    ELSE IF policy_type = "HEALTH"
    THEN { calculate_health_risk_score(age, [current_health |-> health_score],
                                       Tenths(5), occupation_risk) :
             age \in {30, 60}, health_score \in {Tenths(2), Tenths(8)},
             occupation_risk \in {Tenths(2), Tenths(5), Tenths(8)} }
    ELSE { calculate_property_risk_score(
               [natural_disaster |-> natural_disaster_risk, crime_rate |-> Tenths(5),
                property_value_trend |-> Tenths(5)],
               [construction_quality |-> Tenths(7), maintenance |-> Tenths(7),
                utilities_condition |-> Tenths(7)],
               security_score, property_age) :
             natural_disaster_risk \in {RInt(0), RInt(1)},
             security_score \in {Tenths(8), Tenths(2)}, property_age \in {0, 50} }

\* PolicyCalculator.calculate_premium(PolicyType[policy_type], coverage_amount,
\* term_months, {"base_score": risk_score.base_score})
QuotedPremium(policy_type, coverage_amount, term_months, base_score) ==
    pc_calculate_premium(policy_type, coverage_amount, term_months,
                         [base_score |-> NumV(base_score)])

\* f"POL{counter:03d}"
GeneratedPolicyId(counter) == <<"POL", counter>>

Session(email, counter) ==
    [email |-> email, policies |-> <<>>, claims |-> <<>>, policy_counter |-> counter]

Quoted(op, arg, ok, premium) == [op |-> op, arg |-> arg, ok |-> ok, premium |-> premium]

NoRequest ==
    [policy_type |-> "none", coverage_amount |-> RInt(0), term_months |-> 0,
     base_score |-> RInt(0)]

InitQuote ==
    /\ call = NoCall
    /\ result = PremiumOk(0)
    /\ policy = NoPolicy
    /\ ret = Quoted("__init__", NoRequest, TRUE, PremiumOk(0))
    /\ tables = <<>>
    /\ pending = <<>>
    /\ payment = <<>>
    /\ customer = Session("c@x", 1)
    /\ storage = NoFile
    /\ underwriter = <<>>

quoteFrame == <<call, result, tables, pending, payment, underwriter>>

request_new_policy ==
    /\ customer.policy_counter <= MaxRequests
    /\ \E policy_number \in PolicyNumberInputs, coverage_amount \in QuoteCoverageInputs,
          start_date \in QuoteDateInputs, end_date \in QuoteDateInputs :
         IF policy_number \notin DOMAIN TypeOfNumber
         THEN /\ ret' = Quoted("request_new_policy", NoRequest, FALSE,
                               PremiumRaise("Invalid policy type number."))
              /\ UNCHANGED <<policy, customer, storage, quoteFrame>>
         ELSE
           LET policy_type == TypeOfNumber[policy_number]
               policy_id == GeneratedPolicyId(customer.policy_counter)
               counted == [customer EXCEPT !.policy_counter = @ + 1]
           IN
             IF RLeqZero(coverage_amount)
             THEN /\ customer' = counted
                  /\ ret' = Quoted("request_new_policy",
                                   [NoRequest EXCEPT !.policy_type = policy_type], FALSE,
                                   PremiumRaise("Coverage amount must be positive."))
                  /\ UNCHANGED <<policy, storage, quoteFrame>>
             ELSE
               \E risk_score \in RequestedScores(policy_type) :
                 LET term_months == pc_calculate_policy_term(start_date, end_date)
                     premium == QuotedPremium(policy_type, coverage_amount, term_months,
                                              risk_score.base_score)
                     request == [policy_type |-> policy_type,
                                 coverage_amount |-> coverage_amount,
                                 term_months |-> term_months,
                                 base_score |-> risk_score.base_score]
                     dated == DateAfter(end_date, start_date)
                     built == [NewPolicy(policy_type) EXCEPT
                                 !.start_date = IF dated THEN start_date ELSE @,
                                 !.end_date = IF dated THEN end_date ELSE @,
                                 !.coverage_amount = coverage_amount,
                                 !.premium = IF premium.exc = "none" /\ premium.val > 0
                                             THEN premium.val ELSE @]
                     held == HeldPolicy(policy_id, customer.email, dated)
                 IN
                   IF premium.exc # "none"
                   THEN /\ customer' = counted
                        /\ ret' = Quoted("request_new_policy", request, FALSE, premium)
                        /\ UNCHANGED <<policy, storage, quoteFrame>>
                   ELSE /\ policy' = built
                        /\ customer' = PolicyAdded(counted, held)
                        /\ storage' = SavedCustomerData(storage, PolicyAdded(counted, held))
                        /\ ret' = Quoted("request_new_policy", request, TRUE, premium)
                        /\ UNCHANGED quoteFrame

NextQuote == request_new_policy

SpecQuote == InitQuote /\ [][NextQuote]_vars

(***************************************************************************)
(* underwriter.UnderwriterCLI: claim review (SpecUnderwriter).  What the   *)
(* underwriter types is a string of characters; self.claims is the dict a  *)
(* caller has filled, self.payments starts empty.                          *)
(***************************************************************************)
ClaimIds == {"CLM1", "CLM2"}

ClaimIdInputs == ClaimIds \cup {"CLM9"}

\* ClaimStatus values
ClaimStatus == {"PENDING", "REVIEWING", "APPROVED", "REJECTED", "SETTLED"}

\* the characters of each ClaimStatus value
ClaimStatusChars ==
    [s \in ClaimStatus |->
        CASE s = "PENDING"   -> <<"P", "E", "N", "D", "I", "N", "G">>
          [] s = "REVIEWING" -> <<"R", "E", "V", "I", "E", "W", "I", "N", "G">>
          [] s = "APPROVED"  -> <<"A", "P", "P", "R", "O", "V", "E", "D">>
          [] s = "REJECTED"  -> <<"R", "E", "J", "E", "C", "T", "E", "D">>
          [] OTHER           -> <<"S", "E", "T", "T", "L", "E", "D">>]

APPROVE == <<"A", "P", "P", "R", "O", "V", "E">>

REJECT == <<"R", "E", "J", "E", "C", "T">>

ActionInputs ==
    { APPROVE, REJECT, <<"a", "p", "p", "r", "o", "v", "e">>, <<" ", "r", "e", "j", "e", "c", "t", " ">>,
      <<"A", "P", "P", "R", "O", "V", "E", "D">>, <<"R", "E", "J", "E", "C", "T", "E", "D">>, <<"H", "O", "L", "D">> }

\* str.strip() for blanks
RECURSIVE Strip(_)
Strip(s) ==
    IF s = <<>> THEN s
    ELSE IF s[1] = " " THEN Strip(Tail(s))
    ELSE IF s[Len(s)] = " " THEN Strip(SubSeq(s, 1, Len(s) - 1))
    ELSE s

\* a Claim with its amount and status as set_amount and set_status left them
HeldClaim(claim_id, policy_id, amount, status) ==
    [claim_id |-> claim_id, policy_id |-> policy_id, amount |-> amount, status |-> status]

\* status in [s.value for s in ClaimStatus]
StatusNamed(status) == {s \in ClaimStatus : ClaimStatusChars[s] = status}

\* Claim.set_status
ClaimWithStatus(claim, status) ==
    IF StatusNamed(status) # {}
    THEN [claim EXCEPT !.status = CHOOSE s \in StatusNamed(status) : TRUE]
    ELSE claim

PaymentIdOf(claim_id) == <<"PAY_", claim_id>>

\* UnderwriterCLI.initiate_payment
Initiated(u, claim) ==
    IF claim.amount > 0
    THEN [u EXCEPT !.payments =
            DictPut(@, PaymentIdOf(claim.claim_id),
                    [NewPayment(PaymentIdOf(claim.claim_id), claim.policy_id)
                        EXCEPT !.amount = claim.amount])]
    ELSE u

\* UnderwriterCLI.review_claim
Reviewed(u, claim_id, action) ==
    IF claim_id \notin DictKeys(u.claims) THEN u
    ELSE IF action \notin {APPROVE, REJECT} THEN u
    ELSE IF StatusNamed(action) = {} THEN u
    ELSE LET claim == ClaimWithStatus(DictGet(u.claims, claim_id), action)
             v == [u EXCEPT !.claims = DictPut(@, claim_id, claim)]
         IN  IF action = APPROVE THEN Initiated(v, claim) ELSE v

ReviewMessage(u, claim_id, action) ==
    IF claim_id \notin DictKeys(u.claims) THEN "Claim not found."
    ELSE IF action \notin {APPROVE, REJECT} THEN "Invalid action."
    ELSE IF StatusNamed(action) = {} THEN "Failed to update claim status."
    ELSE "Claim updated successfully."

Printed(op, arg, message) == [op |-> op, arg |-> arg, message |-> message]

\* the claims a caller may have put into self.claims
ClaimsOf(claim_id) ==
    {<<>>} \cup { <<[key |-> claim_id, value |-> HeldClaim(claim_id, "P1", amount, status)]>> :
                    amount \in 0 .. MaxAmount, status \in ClaimStatus }

InitUnderwriter ==
    /\ call = NoCall
    /\ result = PremiumOk(0)
    /\ policy = NoPolicy
    /\ ret = Printed("__init__", <<>>, "")
    /\ tables = <<>>
    /\ pending = <<>>
    /\ payment = <<>>
    /\ customer = <<>>
    /\ storage = <<>>
    /\ \E first \in ClaimsOf("CLM1"), second \in ClaimsOf("CLM2") :
            underwriter = [claims |-> first \o second, payments |-> <<>>]

underwriterFrame == <<call, result, policy, tables, pending, payment, customer, storage>>

review_claim ==
    \E claim_id \in ClaimIdInputs, typed \in ActionInputs :
        LET action == Upper(Strip(typed)) IN
            /\ underwriter' = Reviewed(underwriter, claim_id, action)
            /\ ret' = Printed("review_claim", [claim_id |-> claim_id, action |-> action],
                              ReviewMessage(underwriter, claim_id, action))
            /\ UNCHANGED underwriterFrame

initiate_payment ==
    \E claim_id \in DictKeys(underwriter.claims) :
        LET claim == DictGet(underwriter.claims, claim_id) IN
            /\ underwriter' = Initiated(underwriter, claim)
            /\ ret' = Printed("initiate_payment", [claim_id |-> claim_id, action |-> <<>>],
                              IF claim.amount > 0 THEN "Payment initiated."
                              ELSE "Failed to initiate payment.")
            /\ UNCHANGED underwriterFrame

NextUnderwriter ==
    \/ review_claim
    \/ initiate_payment

SpecUnderwriter == InitUnderwriter /\ [][NextUnderwriter]_vars

(***************************************************************************)
(* Reference values the properties below compare the calculators against.  *)
(***************************************************************************)
IsPremiumCall == call.fn \in {"calculate_premium", "pc_calculate_premium"}

IsCanonicalPremiumCall == call.fn = "calculate_premium"

IsMultiplierCall == call.fn = "calculate_risk_multiplier"

PositiveInputs == ~RLeqZero(call.coverage_amount) /\ call.term_months > 0

Has(rf, k) == k \in DOMAIN rf

NumOrAbsent(rf, k) == Has(rf, k) => rf[k].t = "num"

StrOrAbsent(rf, k) == Has(rf, k) => rf[k].t = "str"

RefBaseRate(T) ==
    CASE T = "LIFE" -> Rat(5, 1000)
      [] T = "CAR" -> Rat(4, 100)
      [] T = "HEALTH" -> Rat(6, 100)
      [] T = "PROPERTY" -> Rat(2, 100)
      [] OTHER -> Rat(3, 100)

\* C * base_rate(T) * M / 12
RefTermPremium(T, C, M) == RDivInt(RMul(RMul(C, RefBaseRate(T)), RInt(M)), 12)

RefVehicleAge(a) ==
    IF a.n > 10 * a.d THEN Rat(14, 10) ELSE IF a.n > 5 * a.d THEN Rat(12, 10) ELSE One

RefMileage(m) ==
    IF m.n > 20000 * m.d THEN Rat(13, 10) ELSE IF m.n > 15000 * m.d THEN Rat(12, 10) ELSE One

RefDrivingHistory ==
    {<<S_CLEAN, Rat(10, 10)>>, <<S_MINOR_VIOLATIONS, Rat(12, 10)>>,
     <<S_MAJOR_VIOLATIONS, Rat(15, 10)>>, <<S_ACCIDENTS, Rat(18, 10)>>}

RefParkingLocation ==
    {<<S_GARAGE, Rat(10, 10)>>, <<S_DRIVEWAY, Rat(11, 10)>>,
     <<S_STREET, Rat(13, 10)>>, <<S_PUBLIC_PARKING, Rat(14, 10)>>}

RefLocationRisk ==
    {<<S_LOW, Rat(10, 10)>>, <<S_MEDIUM, Rat(13, 10)>>, <<S_HIGH, Rat(16, 10)>>}

SameLetter(a, b) ==
    \/ a = b
    \/ a \in DOMAIN LowerToUpper /\ LowerToUpper[a] = b
    \/ b \in DOMAIN LowerToUpper /\ LowerToUpper[b] = a

SameIgnoringCase(s, t) ==
    Len(s) = Len(t) /\ \A i \in 1..Len(s) : SameLetter(s[i], t[i])

\* the factor of the table entry that matches s exactly, 1.0 when there is none
RefExact(table, s) ==
    IF \E e \in table : e[1] = s
    THEN (CHOOSE e \in table : e[1] = s)[2]
    ELSE One

\* the factor of the table entry that matches s whatever the case, 1.0 when there is none
RefIgnoringCase(table, s) ==
    IF \E e \in table : SameIgnoringCase(e[1], s)
    THEN (CHOOSE e \in table : SameIgnoringCase(e[1], s))[2]
    ELSE One

RefLifeAge(age) ==
    IF age.n > 60 * age.d THEN Rat(15, 10)
    ELSE IF age.n > 40 * age.d THEN Rat(12, 10)
    ELSE One

\* the mapping with the documented default for every expected key it lacks
RefDefaults(T) ==
    CASE T = "CAR" -> [vehicle_age |-> NumV(RInt(0)), annual_mileage |-> NumV(RInt(12000)),
                       driving_history |-> StrV(S_CLEAN), parking_location |-> StrV(S_GARAGE)]
      [] T = "LIFE" -> [age |-> NumV(RInt(30))]
      [] T = "HEALTH" -> [pre_conditions |-> NumV(RInt(0))]
      [] T = "PROPERTY" -> [location_risk |-> StrV(S_LOW)]
      [] OTHER -> EmptyMapping

WithDefaults(T, rf) ==
    [k \in DOMAIN rf \cup DOMAIN RefDefaults(T) |->
        IF k \in DOMAIN rf THEN rf[k] ELSE RefDefaults(T)[k]]

ExampleCarFactors ==
    [vehicle_age |-> NumV(RInt(12)), annual_mileage |-> NumV(RInt(25000)),
     driving_history |-> StrV(S_ACCIDENTS), parking_location |-> StrV(S_STREET)]

(***************************************************************************)
(* Properties of the premium calculators (SpecCalc).                       *)
(***************************************************************************)

\* C1: with an empty risk-factor mapping, a known policy type, coverage > 0 and
\* term > 0, the premium is round(C * base_rate(T) * M / 12, 2): no risk
\* multiplier is applied.
C1_EmptyFactorsPremium ==
    (/\ IsPremiumCall
     /\ call.policy_type \in PolicyType
     /\ DOMAIN call.risk_factors = {}
     /\ PositiveInputs)
    => result = PremiumOk(Round2(RefTermPremium(call.policy_type, call.coverage_amount,
                                                call.term_months)))

C1_Witness ==
    /\ IsCanonicalPremiumCall
    /\ call.policy_type = "CAR"
    /\ DOMAIN call.risk_factors = {}
    /\ call.coverage_amount = RInt(1100)
    /\ call.term_months = 1
    /\ result = PremiumOk(367)

\* C2: the canonical calculate_premium returns exactly 0.0 and does not raise
\* whenever coverage_amount <= 0 or term_months <= 0, whatever the policy type
\* and the risk-factor mapping.
C2_NonPositiveYieldsZero ==
    (/\ IsCanonicalPremiumCall
     /\ RLeqZero(call.coverage_amount) \/ call.term_months <= 0)
    => result = PremiumOk(0)

C2_Witness ==
    /\ IsCanonicalPremiumCall
    /\ call.policy_type = "CAR"
    /\ Has(call.risk_factors, "vehicle_age")
    /\ call.risk_factors["vehicle_age"] = StrV(S_old)
    /\ call.coverage_amount = RInt(1100)
    /\ call.term_months = -1
    /\ result = PremiumOk(0)

\* C4: for a policy type outside the enumeration, calculate_premium never
\* raises and returns round(C * 0.03 * M / 12, 2) for C > 0 and M > 0, whatever
\* the risk-factor mapping contains; the risk multiplier of such a type is 1.0.
C4_UnknownTypeDefaultRate ==
    /\ (/\ IsPremiumCall
        /\ call.policy_type \notin PolicyType
        /\ PositiveInputs)
       => result = PremiumOk(Round2(RDivInt(RMul(RMul(call.coverage_amount, Rat(3, 100)),
                                                 RInt(call.term_months)), 12)))
    /\ (IsMultiplierCall /\ call.policy_type \notin PolicyType) => result = Ok(One)

C4_Witness ==
    /\ IsCanonicalPremiumCall
    /\ call.policy_type = "BOAT"
    /\ call.risk_factors = [location_risk |-> NumV(Rat(5, 10))]
    /\ call.coverage_amount = RInt(1100)
    /\ call.term_months = 3
    /\ result = PremiumOk(825)

C7_PreConditions(rf) ==
    IF Has(rf, "pre_conditions") THEN rf["pre_conditions"].num ELSE RInt(0)

C7_OneMore(rf) ==
    [k \in DOMAIN rf \cup {"pre_conditions"} |->
        IF k = "pre_conditions" THEN NumV(RAdd(C7_PreConditions(rf), One)) ELSE rf[k]]

C7_HealthMultiplier ==
    /\ (/\ IsMultiplierCall
        /\ call.policy_type = "HEALTH"
        /\ DOMAIN call.risk_factors # {}
        /\ NumOrAbsent(call.risk_factors, "pre_conditions"))
       => /\ result = Ok(RAdd(One, RDivInt(C7_PreConditions(call.risk_factors), 10)))
          /\ calculate_risk_multiplier("HEALTH", C7_OneMore(call.risk_factors))
                 = Ok(RAdd(result.val, Rat(1, 10)))
    /\ (/\ IsCanonicalPremiumCall
        /\ call.policy_type = "HEALTH"
        /\ DOMAIN call.risk_factors # {}
        /\ NumOrAbsent(call.risk_factors, "pre_conditions")
        /\ PositiveInputs)
       => LET base == RefTermPremium("HEALTH", call.coverage_amount, call.term_months)
          IN  result = PremiumOk(Round2(RAdd(base,
                           RMul(C7_PreConditions(call.risk_factors), RDivInt(base, 10)))))

C7_Witness ==
    /\ IsCanonicalPremiumCall
    /\ call.policy_type = "HEALTH"
    /\ call.risk_factors = [pre_conditions |-> NumV(RInt(2))]
    /\ call.coverage_amount = RInt(100000)
    /\ call.term_months = 12
    /\ result = PremiumOk(720000)

\* C8: a categorical value (CAR driving_history, CAR parking_location,
\* PROPERTY location_risk) is matched against its table whatever its case, and
\* a string that is not in the table contributes the factor 1.0 and raises
\* nothing: 'accidents' and 'ACCIDENTS' give the same multiplier, 'UNKNOWN' 1.0.
C8_Categorical(rf, k, default) == IF Has(rf, k) THEN rf[k].str ELSE default

C8_Numeric(rf, k, default) == IF Has(rf, k) THEN rf[k].num ELSE default

C9_MissingKeyDefaults ==
    /\ (/\ IsMultiplierCall
        /\ DOMAIN call.risk_factors # {})
       => /\ result = calculate_risk_multiplier(call.policy_type,
                          WithDefaults(call.policy_type, call.risk_factors))
          /\ result.exc # "KeyError"
          /\ DOMAIN call.risk_factors \cap DOMAIN RefDefaults(call.policy_type) = {}
                 => result = Ok(One)
    /\ (/\ IsCanonicalPremiumCall
        /\ DOMAIN call.risk_factors # {}
        /\ DOMAIN call.risk_factors \cap DOMAIN RefDefaults(call.policy_type) = {}
        /\ PositiveInputs)
       => result = PremiumOk(Round2(RefTermPremium(call.policy_type, call.coverage_amount,
                                                   call.term_months)))

C9_Witness ==
    /\ IsMultiplierCall
    /\ call.policy_type = "LIFE"
    /\ call.risk_factors = [base_risk |-> NumV(Rat(5, 10))]
    /\ result = Ok(One)

\* C10: the premium scales linearly in the term: with an empty mapping, C > 0
\* and M > 0, the premium for the term 2M differs from twice the premium for
\* the term M by at most one cent.
C10_TermLinearity ==
    (/\ IsCanonicalPremiumCall
     /\ DOMAIN call.risk_factors = {}
     /\ PositiveInputs)
    => LET doubled == calculate_premium(call.policy_type, call.coverage_amount,
                                        2 * call.term_months, EmptyMapping)
       IN  /\ result.exc = "none"
           /\ doubled.exc = "none"
           /\ Abs(doubled.val - 2 * result.val) <= 1

C10_Witness ==
    /\ IsCanonicalPremiumCall
    /\ DOMAIN call.risk_factors = {}
    /\ call.policy_type = "CAR"
    /\ call.coverage_amount = RInt(1100)
    /\ call.term_months = 1
    /\ result = PremiumOk(367)
    /\ calculate_premium("CAR", RInt(1100), 2, EmptyMapping) = PremiumOk(733)

\* C11: the premium returned by calculate_premium is non-negative for every
\* input, negative numeric risk factors (HEALTH pre_conditions below -10)
\* included.
C11_PremiumNonNegative ==
    (IsPremiumCall /\ result.exc = "none") => result.val >= 0

(***************************************************************************)
(* Properties of calculate_policy_term (SpecTerm).                         *)
(***************************************************************************)
IsTermCall == call.fn \in {"calculate_policy_term", "pc_calculate_policy_term"}

Missing(d) == d = NoDate

\* the calendar order of two dates, read off one number per date
DateKey(d) == d.year * 10000 + d.month * 100 + d.day

EndsAfterStart ==
    /\ ~Missing(call.start_date)
    /\ ~Missing(call.end_date)
    /\ DateKey(call.end_date) > DateKey(call.start_date)

RefMonthDifference ==
    (call.end_date.year - call.start_date.year) * 12
        + (call.end_date.month - call.start_date.month)
        - (IF call.end_date.day < call.start_date.day THEN 1 ELSE 0)

\* C12: calculate_policy_term returns 0 whenever start_date is missing,
\* end_date is missing, or end_date <= start_date (equal dates included).
C12_ZeroTerm ==
    (/\ IsTermCall
     /\ \/ Missing(call.start_date)
        \/ Missing(call.end_date)
        \/ DateKey(call.end_date) <= DateKey(call.start_date))
    => result = Ok(0)

C12_Witness ==
    /\ call.fn = "calculate_policy_term"
    /\ call.start_date = Date(2024, 1, 15)
    /\ call.end_date = Date(2024, 1, 15)
    /\ result = Ok(0)

C14_MinimumOneMonth ==
    IsTermCall
    => /\ EndsAfterStart => (result.exc = "none" /\ result.val >= 1)
       /\ result = Ok(0) => ~EndsAfterStart

C14_Witness ==
    /\ call.fn = "calculate_policy_term"
    /\ call.start_date = Date(2024, 1, 31)
    /\ call.end_date = Date(2024, 2, 1)
    /\ RefMonthDifference = 0
    /\ result = Ok(1)

(***************************************************************************)
(* Properties of the risk-score functions (SpecScore).                     *)
(***************************************************************************)
IsCarScoreCall == call.fn = "calculate_car_risk_score"

IsHealthScoreCall == call.fn = "calculate_health_risk_score"

IsPropertyScoreCall == call.fn = "calculate_property_risk_score"

IsLifeScoreCall == call.fn = "calculate_life_risk_score"

IsScoreCall ==
    IsCarScoreCall \/ IsHealthScoreCall \/ IsPropertyScoreCall \/ IsLifeScoreCall

RSub(a, b) == Rat(a.n * b.d - b.n * a.d, a.d * b.d)

RLeq(a, b) == a.n * b.d <= b.n * a.d

Entry(d, k) == IF k \in DOMAIN d THEN d[k] ELSE RInt(0)

\* x, and 1 in its place when x exceeds 1
RefAtMostOne(x) == IF RLeq(x, RInt(1)) THEN x ELSE RInt(1)

RefLifeAgeFactor == Rat(call.args.age, 100)

RefLifestyle ==
    RAdd(Entry(call.args.lifestyle_factors, "smoking"),
         Entry(call.args.lifestyle_factors, "alcohol"))

RefFamily == Rat(Len(call.args.family_history), 10)

RefLifeTotal ==
    RAdd(RAdd(RefLifeAgeFactor, call.args.health_score), RAdd(RefLifestyle, RefFamily))

\* C15: calculate_life_risk_score returns base_score = min(1.0, (0.01 * age
\* + health_score + the sum of the lifestyle_factors values
\* + 0.1 * len(family_history)) / 4) for all inputs.
C15_LifeBaseScore ==
    IsLifeScoreCall
    => /\ result.exc = "none"
       /\ result.val.base_score = RefAtMostOne(RMul(RefLifeTotal, Rat(1, 4)))

C15_Witness ==
    /\ IsLifeScoreCall
    /\ call.args.age = 40
    /\ call.args.health_score = Rat(8, 10)
    /\ call.args.lifestyle_factors = [smoking |-> RInt(1), alcohol |-> RInt(3)]
    /\ Len(call.args.family_history) = 2
    /\ RefLifeTotal = Rat(54, 10)
    /\ result.val.base_score = RInt(1)

\* C16: the life score's confidence starts at 0.95, is multiplied by 0.9
\* when lifestyle_factors is empty and by 0.95 when family_history is empty
\* (0.95, 0.855, 0.9025 and 0.81225 for the four combinations); no other
\* input changes it.
C16_LifeConfidence ==
    IsLifeScoreCall
    => LET noLifestyle == DOMAIN call.args.lifestyle_factors = {}
           noFamily == Len(call.args.family_history) = 0
       IN  result.val.confidence =
               IF noLifestyle /\ noFamily THEN Rat(81225, 100000)
               ELSE IF noLifestyle THEN Rat(855, 1000)
               ELSE IF noFamily THEN Rat(9025, 10000)
               ELSE Rat(95, 100)

C16_Witness ==
    /\ IsLifeScoreCall
    /\ DOMAIN call.args.lifestyle_factors = {}
    /\ call.args.family_history = <<>>
    /\ result.val.confidence = Rat(81225, 100000)

RefCarAge ==
    IF call.args.driver_age \in (25 .. 29) \cup (61 .. 70) THEN Rat(2, 10)
    ELSE IF call.args.driver_age \in 30 .. 60 THEN RInt(0)
    ELSE Rat(3, 10)

RefCarAccidents == Rat(2 * Len(call.args.accident_history), 10)

RefCarTotal ==
    RAdd(RAdd(RefCarAge, call.args.vehicle_score),
         RAdd(RefCarAccidents, call.args.location_risk))

\* C17: calculate_car_risk_score applies exactly one age bracket (0.3 when
\* driver_age < 25 or > 70; otherwise 0.2 when < 30 or > 60; otherwise 0,
\* never 0.5), adds vehicle_score, 0.2 per accident and location_risk, and
\* reports exactly 1.0 whenever the raw sum exceeds 1.0.
C17_CarBaseScore ==
    IsCarScoreCall
    => /\ result.exc = "none"
       /\ result.val.base_score = RefAtMostOne(RefCarTotal)

C17_Witness ==
    /\ IsCarScoreCall
    /\ call.args.driver_age = 80
    /\ call.args.vehicle_score = Rat(9, 10)
    /\ Len(call.args.accident_history) = 3
    /\ call.args.location_risk = Rat(9, 10)
    /\ RefCarTotal = Rat(27, 10)
    /\ result.val.base_score = RInt(1)

RefBuildingAge == RefAtMostOne(Rat(2 * call.args.building_age, 100))

RefDetail(k) ==
    IF k \in DOMAIN call.args.property_details
    THEN call.args.property_details[k] ELSE Rat(1, 2)

RefCondition ==
    RMul(RAdd(RefDetail("construction_quality"),
              RAdd(RefDetail("maintenance"), RefDetail("utilities_condition"))),
         Rat(1, 3))

RefPropertyLocation ==
    RAdd(Entry(call.args.location_data, "natural_disaster"),
         Entry(call.args.location_data, "crime_rate"))

RefPropertyTotal ==
    RAdd(RSub(RAdd(RefPropertyLocation, RefBuildingAge), call.args.security_score),
         RefCondition)

\* C18: calculate_property_risk_score returns natural_disaster + crime_rate
\* + min(1.0, building_age * 0.02) - security_score + the average of the
\* three property details, clamped to [0.0, 1.0] at both ends; a missing
\* property detail counts 0.5 and a missing location entry 0.
C18_PropertyBaseScore ==
    IsPropertyScoreCall
    => /\ result.exc = "none"
       /\ result.val.base_score =
              IF RLeq(RefPropertyTotal, RInt(0)) THEN RInt(0)
              ELSE RefAtMostOne(RefPropertyTotal)

C18_Witness ==
    /\ IsPropertyScoreCall
    /\ call.args.location_data = EmptyMapping
    /\ call.args.property_details = EmptyMapping
    /\ call.args.security_score = Rat(8, 10)
    /\ call.args.building_age = 0
    /\ RefPropertyTotal = Rat(-3, 10)
    /\ result.val.base_score = RInt(0)

\* C19: for each of the four scoring functions and all inputs, the returned
\* base_score lies in [0.0, 1.0].
C19_ScoreNormalized ==
    IsScoreCall
    => /\ RLeq(RInt(0), result.val.base_score)
       /\ RLeq(result.val.base_score, RInt(1))

\* the sub-scores each function adds into base_score, by factor name
RefSubScores ==
    IF IsCarScoreCall
    THEN [age |-> RefCarAge, vehicle |-> call.args.vehicle_score,
          accidents |-> RefCarAccidents, location |-> call.args.location_risk]
    ELSE IF IsHealthScoreCall
    THEN [age |-> Rat(call.args.age, 100),
          medical |-> IF "current_health" \in DOMAIN call.args.medical_history
                      THEN call.args.medical_history["current_health"] ELSE Rat(1, 2),
          lifestyle |-> call.args.lifestyle_score,
          occupation |-> call.args.occupation_risk]
    ELSE IF IsPropertyScoreCall
    THEN [location |-> RefPropertyLocation, age |-> RefBuildingAge,
          security |-> call.args.security_score, condition |-> RefCondition]
    ELSE [age |-> RefLifeAgeFactor, health |-> call.args.health_score,
          lifestyle |-> RefLifestyle, family_history |-> RefFamily]

\* C20: in every risk score the factors mapping holds exactly the sub-scores
\* added into base_score, not raw inputs: the car 'age' factor is the
\* 0.3 / 0.2 / 0 bracket contribution, 'accidents' is 0.2 * count, the
\* property 'location' is natural_disaster + crime_rate.
C20_FactorsAreSubScores ==
    IsScoreCall => result.val.factors = RefSubScores

(***************************************************************************)
(* Properties of concurrent callers (SpecPure).                            *)
(***************************************************************************)
\* the result of the call made alone, start to end without another caller
AloneResult(fn, a) ==
    IF fn = "calculate_premium"
    THEN calculate_premium(a.policy_type, a.coverage_amount, a.term_months, a.risk_factors)
    ELSE IF fn = "pc_calculate_premium"
    THEN pc_calculate_premium(a.policy_type, a.coverage_amount, a.term_months,
                              a.risk_factors)
    ELSE PureResult(fn, RInt(0), a)

\* C21: calculate_premium, calculate_policy_term and the four risk-score
\* functions are pure: no call changes the base-rate table, the lookup
\* tables or the caller's input mappings and lists, so under any
\* interleaving of calls from several callers each call returns the result
\* it returns when made alone.
C21_PureCalls ==
    /\ [](/\ tables = ClassTables
          /\ \A c \in Callers :
                pending[c].stage = "returned"
                => pending[c].result = AloneResult(pending[c].fn, pending[c].args))
    /\ [][/\ tables' = tables
          /\ \A c \in Callers :
                (pending[c].stage # "idle" /\ pending'[c].stage # "idle")
                => (pending'[c].fn = pending[c].fn /\ pending'[c].args = pending[c].args)]_vars

C21_Witness ==
    /\ pending[1].stage = "returned"
    /\ pending[1].fn = "calculate_premium"
    /\ pending[1].args.policy_type = "BOAT"
    /\ pending[1].result = PremiumOk(825)
    /\ pending[2].stage = "entered"
    /\ pending[2].fn = "pc_calculate_premium"
    /\ tables = ClassTables

(***************************************************************************)
(* Properties of Policy (SpecPolicy).                                      *)
(***************************************************************************)

\* C3: Policy.calculate_premium applies one precondition discipline: it
\* returns 0.0 without raising both when the coverage is <= 0 and when the
\* dates give a term of 0 months, and the stored premium is left unchanged.
C3_OneDiscipline ==
    [][(/\ ret'.op = "calculate_premium"
        /\ \/ RLeqZero(policy.coverage_amount)
           \/ pc_calculate_policy_term(policy.start_date, policy.end_date) = 0)
       => /\ ret'.exc = "none"
          /\ ret'.val = 0
          /\ policy'.premium = policy.premium]_vars

\* C22: a Policy's premium is mutated only by explicit recalculation: the
\* stored premium changes only in a step that is Policy.calculate_premium,
\* and after a calculate_premium step that returns, it equals the value
\* computed from the policy's type, coverage, term and the risk factors.
C22_PremiumOnlyRecalculated ==
    [][/\ policy'.premium # policy.premium => ret'.op = "calculate_premium"
       /\ (ret'.op = "calculate_premium" /\ ret'.exc = "none")
          => policy'.premium = ret'.val]_vars

(***************************************************************************)
(* Properties of Payment (SpecPayment).                                    *)
(***************************************************************************)

\* C23: refund_payment returns True and sets the status to REFUNDED exactly
\* when the status is COMPLETED; in every other status it returns False and
\* leaves the payment unchanged; process_payment succeeds when id, policy
\* id, amount > 0 and method are all set, and the status is then COMPLETED,
\* so that a refund is possible.
C23_RefundOnlyCompleted ==
    [][/\ ret'.op = "refund_payment"
          => IF payment.payment_status = "COMPLETED"
             THEN /\ ret'.val = TRUE
                  /\ payment' = [payment EXCEPT !.payment_status = "REFUNDED"]
             ELSE /\ ret'.val = FALSE
                  /\ payment' = payment
       /\ ret'.op = "process_payment"
          => /\ ret'.val = (/\ payment.payment_id # ""
                            /\ payment.policy_id # ""
                            /\ payment.amount > 0
                            /\ payment.payment_method # "")
             /\ ret'.val = TRUE => payment'.payment_status = "COMPLETED"
             /\ ret'.val = FALSE => payment' = payment]_vars

C23_Witness ==
    /\ ret = Answer("refund_payment", TRUE)
    /\ payment.payment_status = "REFUNDED"
    /\ payment.transaction_id = <<"TXN_", "PAY_CLM1">>
    /\ payment.amount > 0

\* C30: a refunded payment stays refunded: once the status is REFUNDED, no
\* Payment operation (set_amount, set_status, set_payment_method,
\* process_payment, refund_payment) makes it COMPLETED again.
C30_RefundedStaysRefunded ==
    [][payment.payment_status = "REFUNDED"
       => payment'.payment_status # "COMPLETED"]_vars

(***************************************************************************)
(* Properties of the policy status (SpecStatus).                           *)
(***************************************************************************)
StatusTable ==
    { <<"PENDING", "APPROVED">>, <<"PENDING", "REJECTED">>, <<"PENDING", "CANCELLED">>,
      <<"APPROVED", "ACTIVE">>, <<"APPROVED", "CANCELLED">>,
      <<"REJECTED", "CANCELLED">>,
      <<"ACTIVE", "INACTIVE">>, <<"ACTIVE", "EXPIRED">>, <<"ACTIVE", "CANCELLED">>,
      <<"INACTIVE", "ACTIVE">>, <<"INACTIVE", "EXPIRED">>, <<"INACTIVE", "CANCELLED">>,
      <<"EXPIRED", "CANCELLED">> }

C25_StatusRoundTrip ==
    [][(/\ ret.op = "save_policies_to_json"
        /\ ret'.op = "load_policies_from_json"
        /\ ret'.arg = customer.email
        /\ ret'.ok)
       => \A i \in 1 .. Len(customer.policies) :
            \E j \in 1 .. Len(ret'.val.policies) :
                /\ ret'.val.policies[j].policy_id = customer.policies[i].policy_id
                /\ ret'.val.policies[j].status = customer.policies[i].status]_vars

(***************************************************************************)
(* Properties of Customer (SpecCustomer).                                  *)
(***************************************************************************)

\* C26: add_claim appends the claim and returns True only when the claim's
\* customer_id equals the customer's email and the customer holds a policy
\* with the claim's policy_id whose status is ACTIVE at that moment;
\* otherwise it returns False and the claims are unchanged; so every stored
\* claim refers to a policy of that same customer.
C26_ClaimNeedsActivePolicy ==
    /\ [](\A k \in 1 .. Len(customer.claims) :
            /\ customer.claims[k].customer_id = customer.email
            /\ \E i \in 1 .. Len(customer.policies) :
                 /\ customer.policies[i].policy_id = customer.claims[k].policy_id
                 /\ customer.policies[i].customer_id = customer.email)
    /\ [][ret'.op = "add_claim"
          => IF ret'.ok
             THEN /\ ret'.arg.customer_id = customer.email
                  /\ \E i \in 1 .. Len(customer.policies) :
                       /\ customer.policies[i].policy_id = ret'.arg.policy_id
                       /\ customer.policies[i].status = "ACTIVE"
                  /\ customer' = [customer EXCEPT !.claims = Append(@, ret'.arg)]
             ELSE customer' = customer]_vars

C26_Witness ==
    /\ Len(customer.policies) = 2
    /\ customer.policies[1].status = "PENDING"
    /\ customer.policies[2].status = "ACTIVE"
    /\ customer.policies[1].policy_id # customer.policies[2].policy_id
    /\ ret.op = "add_claim"
    /\ ret.ok
    /\ ret.arg.policy_id = customer.policies[2].policy_id
    /\ customer.claims = <<ret.arg>>

(***************************************************************************)
(* Properties of the underwriter's claim review (SpecUnderwriter).         *)
(***************************************************************************)

\* C27: in the claim review, APPROVE for an existing claim leaves the claim
\* APPROVED and, when the claim amount is positive, payments holds a PENDING
\* payment PAY_<claim_id> for the claim's policy with the claim's amount;
\* REJECT leaves the claim REJECTED and creates no payment.
C27_ReviewDecides ==
    [][(/\ ret'.op = "review_claim"
        /\ ret'.arg.claim_id \in DictKeys(underwriter.claims))
       => LET claim_id == ret'.arg.claim_id
              before == DictGet(underwriter.claims, claim_id)
              after == DictGet(underwriter'.claims, claim_id)
              payment_id == <<"PAY_", claim_id>>
          IN  /\ ret'.arg.action = <<"A", "P", "P", "R", "O", "V", "E">>
                 => /\ after.status = "APPROVED"
                    /\ before.amount > 0
                       => /\ payment_id \in DictKeys(underwriter'.payments)
                          /\ LET paid == DictGet(underwriter'.payments, payment_id) IN
                                /\ paid.payment_status = "PENDING"
                                /\ paid.policy_id = before.policy_id
                                /\ paid.amount = before.amount
              /\ ret'.arg.action = <<"R", "E", "J", "E", "C", "T">>
                 => /\ after.status = "REJECTED"
                    /\ underwriter'.payments = underwriter.payments]_vars

(***************************************************************************)
(* Properties of DataStorageService (SpecStorage).                         *)
(***************************************************************************)

\* C29: after a successful save_customer_data for customer c, the stored
\* record of every other customer is identical to what it was before the
\* call, and every policy previously stored for c whose id is not among
\* c's in-memory policies is still stored unchanged.
C29_SavePreservesOthers ==
    [][(ret'.op = "save_customer_data" /\ ret'.ok /\ storage.exists)
       => /\ \A k \in DictKeys(storage.data) \ {customer.email} :
                /\ k \in DictKeys(storage'.data)
                /\ DictGet(storage'.data, k) = DictGet(storage.data, k)
          /\ customer.email \in DictKeys(storage.data)
             => LET before == DictGet(storage.data, customer.email).policies
                    after == DictGet(storage'.data, customer.email).policies
                IN  \A id \in DictKeys(before) :
                        (\A i \in 1 .. Len(customer.policies) :
                              customer.policies[i].policy_id # id)
                        => /\ id \in DictKeys(after)
                           /\ DictGet(after, id) = DictGet(before, id)]_vars

(***************************************************************************)
(* Properties of the policy request (SpecQuote).                           *)
(***************************************************************************)
BaseScores == {Rat(k, 10) : k \in 0 .. 10}

\* C28: for every policy type, with coverage and term fixed, the premium
\* quoted by request_new_policy depends on the risk score's base_score:
\* there is another base_score in [0, 1] for which the quoted premium
\* differs.
C28_PremiumDependsOnScore ==
    [][(ret'.op = "request_new_policy" /\ ret'.ok)
       => \E other \in BaseScores :
            pc_calculate_premium(ret'.arg.policy_type, ret'.arg.coverage_amount,
                                 ret'.arg.term_months, [base_score |-> NumV(other)])
                # ret'.premium]_vars

====
